---- MODULE Spec2Model ----
(***************************************************************************)
(* Universal Price Tracker: the update orchestrator (background-agent.js), *)
(* its history store and the collectors' consolidation function.           *)
(*                                                                         *)
(* JavaScript runs every synchronous stretch of code to completion, so an  *)
(* action of this model is one such stretch: from the start of a timer or  *)
(* HTTP callback (or from the resumption after an await) up to the next    *)
(* await that waits for I/O.                                               *)
(*                                                                         *)
(* A wall-clock instant is a record [h, ms]: whole hours since the epoch   *)
(* and milliseconds inside that hour.  Every window of getHistoricalData   *)
(* is a whole number of hours, so the arithmetic of the code is exact in   *)
(* this form, and one year of milliseconds does not fit a 32-bit integer.  *)
(***************************************************************************)
EXTENDS Integers, Sequences, FiniteSets, TLC

\* ------------------------------------------------------------------ bounds
MaxClockSteps == 1
MaxCycles == 2
MaxSaves == 1
MaxObs == 3
MaxQueryPoints == 2
MaxLoadPoints == 2
MaxSchedMinutes == 60

\* ------------------------------------------------------- program constants
HistoryCap == 1000
MsPerHour == 60 * 60 * 1000
MarketOpenHour == 6
MarketCloseHour == 22

Null == "null"

\* A JavaScript value that may be absent (null or undefined): None, or
\* Some(x).
None == << >>

Some(x) == <<x>>

Collectors == {"crypto", "stocks", "metals", "consumer", "luxury", "realestate"}

\* The keys of the catalogue each collector is constructed with.
Catalogue(c) ==
  CASE c = "crypto"     -> <<"BTC", "ETH", "SOL", "DOGE">>
    [] c = "stocks"     -> <<"SPY", "QQQ", "DIA">>
    [] c = "metals"     -> <<"XAU", "XAG", "XPT", "XPD">>
    [] c = "consumer"   -> <<"EGGS", "MILK", "GAS", "COFFEE">>
    [] c = "luxury"     -> <<"ROLEX-SUB", "ROLEX-DAY", "AP-RO", "PATEK-NAU",
                             "CHAR-PSA10", "MTG-LOTUS", "AC1">>
    [] c = "realestate" -> <<"HOUSE-US", "HOUSE-CA", "NYC-SQFT">>

\* (the loop of the crypto collector visits BTC a second time)
SymbolsOf_twice(c) ==
  CASE c = "crypto"     -> <<"BTC", "ETH", "BTC">>
    [] c = "stocks"     -> <<"SPY">>
    [] c = "metals"     -> <<"XAU">>
    [] c = "consumer"   -> <<"EGGS">>
    [] c = "luxury"     -> <<"ROLEX-SUB">>
    [] c = "realestate" -> <<"HOUSE-US">>

\* The symbols a collector owns, in the order its collectData loop visits
\* them (a bounded part of each collector's catalogue).
SymbolsOf(c) ==
  CASE c = "crypto"     -> <<"BTC", "ETH">>
    [] c = "stocks"     -> <<"SPY">>
    [] c = "metals"     -> <<"XAU">>
    [] c = "consumer"   -> <<"EGGS">>
    [] c = "luxury"     -> <<"ROLEX-SUB">>
    [] c = "realestate" -> <<"HOUSE-US">>

Triggers == {"cron5", "cronHourly", "manual"}

\* ------------------------------------------------------------------- time
Time(hh, mm) == [h |-> hh, ms |-> mm]

TimeGE(a, b) == a.h > b.h \/ (a.h = b.h /\ a.ms >= b.ms)

TimeGT(a, b) == a.h > b.h \/ (a.h = b.h /\ a.ms > b.ms)

MinusHours(t, n) == [h |-> t.h - n, ms |-> t.ms]

PlusMs(t, n) ==
  IF t.ms + n >= MsPerHour THEN [h |-> t.h + 1, ms |-> t.ms + n - MsPerHour]
  ELSE IF t.ms + n < 0 THEN [h |-> t.h - 1, ms |-> t.ms + n + MsPerHour]
  ELSE [h |-> t.h, ms |-> t.ms + n]

getHours(t) == t.h % 24

\* The process starts one millisecond before the end of the last market
\* hour of a day.
StartClock == Time(24 * 400 + MarketCloseHour, MsPerHour - 1)

\* -------------------------------------------------------------- JS Map
MapSet(m, k, v) == [x \in (DOMAIN m) \cup {k} |-> IF x = k THEN v ELSE m[x]]

MapHas(m, k) == k \in DOMAIN m

EmptyMap == [x \in {} |-> Null]

Last(s) == s[Len(s)]

VARIABLES
  isUpdating,     \* this.isUpdating
  dataStore,      \* this.dataStore     : symbol -> current entry
  lastUpdate,     \* this.lastUpdate    : symbol -> timestamp
  updateHistory,  \* this.updateHistory : symbol -> sequence of points
  status,         \* collector -> its this.status
  pc,             \* trigger -> "idle" | "running" (inside updateAllPrices)
  call,           \* trigger -> collector -> state of the collectData call
  successCount,   \* trigger -> successCount of its updateAllPrices call
  errorCount,     \* trigger -> errorCount of its updateAllPrices call
  response,       \* the answer of the last POST /api/update
  clock,          \* Date.now()
  clockSteps,     \* number of clock advances so far
  cycles,         \* number of update cycles the run can still start
  file,           \* ./data/historical-data.json: [exists, data (its text)]
  loadPc,         \* position of loadStoredData
  savePc,         \* position of saveData
  dataToSave,     \* the object saveData builds
  saves,          \* number of saveData calls the run can still make
  lastTrigger,    \* the trigger whose callback ran in the last step, or "none"
  env,            \* what the collectors' sources do in this run
  outcomes,       \* collector -> how its collectData ends in this run
  sources,        \* the array handed to verifyAndConsolidate
  collector,      \* the collector whose verifyAndConsolidate is applied
  consolidated,   \* what verifyAndConsolidate returned, or Null
  queryArgs,      \* the arguments of the last getHistoricalData call
  queryResult,    \* what it returned
  collected,      \* what the collection of one symbol and its collectData did
  due,            \* the timer callbacks of this minute that have not run yet
  triggered,      \* the timers that called updateAllPrices in this minute
  adapterCalls,   \* adapter -> position of its call for the collected symbol
  statusReport,   \* the last answer of GET /api/status
  pricesReport    \* the last answer of GET /api/prices

vars == <<isUpdating, dataStore, lastUpdate, updateHistory, status, pc, call,
          successCount, errorCount, response, clock, clockSteps, cycles,
          file, loadPc, savePc, dataToSave, saves, lastTrigger, env,
          outcomes, sources, collector, consolidated, queryArgs, queryResult,
          collected, due, triggered, adapterCalls, statusReport,
          pricesReport>>

agentVars == <<isUpdating, dataStore, lastUpdate, updateHistory, status, pc,
               call, successCount, errorCount, response, clock, clockSteps,
               cycles, file, loadPc, savePc, dataToSave, saves, lastTrigger>>

consVars == <<sources, collector, consolidated>>

envVars == <<env, outcomes>>

queryVars == <<queryArgs, queryResult>>

collectVars == <<collected>>

schedVars == <<due, triggered>>

\* ------------------------------------------------------ the history store
\* (a cut at the wrong end: the newest points are removed)
Splice0_fromEnd(h, deleteCount) == SubSeq(h, 1, Len(h) - deleteCount)

\* Array.prototype.splice(start, deleteCount) with start = 0.
Splice0(h, deleteCount) == SubSeq(h, deleteCount + 1, Len(h))

Store(ds, lu, uh) == [dataStore |-> ds, lastUpdate |-> lu, updateHistory |-> uh]

\* (no cut at all)
PushAndTrim_noTrim(h, point) == Append(h, point)

\* history.push(point), then the cut to the last 1000 points.
PushAndTrim(h, point) ==
  LET pushed == Append(h, point) IN
  IF Len(pushed) > HistoryCap
    THEN Splice0(pushed, Len(pushed) - HistoryCap)
    ELSE pushed

\* (the new point is put in front of the history)
updateItemData_unshift(st, symbol, price, source, verifiedArg, now) ==
  LET verified == IF verifiedArg = None THEN FALSE ELSE verifiedArg[1]
      history  == IF MapHas(st.updateHistory, symbol)
                    THEN st.updateHistory[symbol] ELSE << >>
      point    == [price |-> price, timestamp |-> now,
                   source |-> source, verified |-> verified]
  IN Store(MapSet(st.dataStore, symbol,
                  [currentPrice |-> price, timestamp |-> now,
                   source |-> source, verified |-> verified]),
           MapSet(st.lastUpdate, symbol, now),
           MapSet(st.updateHistory, symbol, <<point>> \o history))

updateItemData(st, symbol, price, source, verifiedArg, now) ==
  LET verified == IF verifiedArg = None THEN FALSE ELSE verifiedArg[1]
      history  == IF MapHas(st.updateHistory, symbol)
                    THEN st.updateHistory[symbol] ELSE << >>
      point    == [price |-> price, timestamp |-> now,
                   source |-> source, verified |-> verified]
  IN Store(MapSet(st.dataStore, symbol,
                  [currentPrice |-> price, timestamp |-> now,
                   source |-> source, verified |-> verified]),
           MapSet(st.lastUpdate, symbol, now),
           MapSet(st.updateHistory, symbol, PushAndTrim(history, point)))

\* result.success && result.price && result.price > 0
\* (a result is stored on its success flag alone)
Accepted_successOnly(result) == result.success = TRUE

Accepted(result) ==
  /\ result.success = TRUE
  /\ result.price # None
  /\ result.price[1].num # 0
  /\ result.price[1].num > 0

\* results.forEach(...) of updateAllPrices: the store and the two counters
\* after the results from index i on have been handled.
RECURSIVE ApplyResults(_, _, _, _)
RECURSIVE ApplyResults_stopsAtFailure(_, _, _, _)
\* (the results are kept for the end of the cycle)
ApplyResults_deferred(results, i, acc, now) == acc

\* (the loop over the results stops at the first failed one)
ApplyResults_stopsAtFailure(results, i, acc, now) ==
  IF i > Len(results) THEN acc
  ELSE LET r == results[i] IN
       IF r.success = TRUE /\ r.price # None /\ r.price[1].num > 0
         THEN ApplyResults_stopsAtFailure(results, i + 1,
                [store |-> updateItemData(acc.store, r.symbol, r.price[1],
                                          r.source, r.verified, now),
                 successCount |-> acc.successCount + 1,
                 errorCount |-> acc.errorCount], now)
         ELSE [store |-> acc.store,
               successCount |-> acc.successCount,
               errorCount |-> acc.errorCount + 1]

ApplyResults(results, i, acc, now) ==
  IF i > Len(results) THEN acc
  ELSE LET r == results[i] IN
       IF Accepted(r)
         THEN ApplyResults(results, i + 1,
                [store |-> updateItemData(acc.store, r.symbol, r.price[1],
                                          r.source, r.verified, now),
                 successCount |-> acc.successCount + 1,
                 errorCount |-> acc.errorCount], now)
         ELSE ApplyResults(results, i + 1,
                [store |-> acc.store,
                 successCount |-> acc.successCount,
                 errorCount |-> acc.errorCount + 1], now)

\* (the fault is logged but not counted)
ErrorCountAfterThrow_notCounted(n) == n

\* The catch of the per-collector task: errorCount++.
ErrorCountAfterThrow(n) == n + 1

\* ------------------------------------------------------- persisted file
\* A history as saveData wrote it in an earlier run: n points, one per
\* millisecond of the hour before the process started.
SeedHistory(n) ==
  [i \in 1..n |-> [price |-> [num |-> 1 + (i % 2), den |-> 1],
                   timestamp |-> Time(StartClock.h - 1, i),
                   source |-> IF i = n THEN Null ELSE "Binance",
                   verified |-> (i % 2 = 0)]]

\* The text of the file is a JSON object: the sequence of its members, in
\* the order in which they are written, each an array of point objects or,
\* in a file that this program did not write, null.  A point object in the
\* text is the tuple of its price, its timestamp, and what the text has for
\* the properties source and verified: Some(v), or None for a property
\* that the text does not have.
JsonMember(k, v) == [key |-> k, value |-> v]

\* The symbols in the order of the collectors' catalogues.  The keys of a
\* JavaScript object come in insertion order; the maps of this model keep
\* none, and the members are written in this order.
KeysOf(obj) ==
  SelectSeq(<<"BTC", "ETH", "SPY", "XAU", "EGGS", "ROLEX-SUB", "HOUSE-US">>,
            LAMBDA k : k \in DOMAIN obj)

\* (the property verified is not written)
StringifyPoint_noVerified(point) ==
  <<point.price, point.timestamp,
    IF point.source = Null THEN None ELSE Some(point.source), None>>

\* JSON.stringify of a history point: a property without a value is left
\* out.
StringifyPoint(point) ==
  <<point.price, point.timestamp,
    IF point.source = Null THEN None ELSE Some(point.source),
    Some(point.verified)>>

\* fs.writeJson(path, dataToSave): the text written.
WriteJson(obj) ==
  LET keys == KeysOf(obj) IN
  [i \in 1..Len(keys) |->
     JsonMember(keys[i],
                [kind |-> "array",
                 items |-> [k \in 1..Len(obj[keys[i]]) |->
                              StringifyPoint(obj[keys[i]][k])]])]

\* fs.readJson(path), then Object.entries(data): the entries in the order
\* of the text, the value of each an array of points or null.  A property
\* that the text of a point does not have is undefined.
ReadJson(text) ==
  [i \in 1..Len(text) |->
     [symbol |-> text[i].key,
      isArray |-> text[i].value.kind = "array",
      history |->
        [k \in 1..Len(text[i].value.items) |->
           LET props == text[i].value.items[k]
           IN [price |-> props[1],
               timestamp |-> props[2],
               source |-> IF props[3] = None THEN Null ELSE props[3][1],
               verified |-> IF props[4] = None THEN FALSE ELSE props[4][1]]]]]

NoFile == [exists |-> FALSE, data |-> << >>]

StoredFile(n) ==
  [exists |-> TRUE, data |-> WriteJson([s \in {"BTC"} |-> SeedHistory(n)])]

\* (the source of the point is kept even when it has none)
StoredSource_asIs(latest) == latest.source

\* latest.source || 'stored'
StoredSource(latest) == IF latest.source = Null THEN "stored" ELSE latest.source

\* The forEach of loadStoredData over the entries from index i on: the
\* maps after it, and whether it threw (history.length of null; <<Null>>
\* is what updateHistory then holds for that symbol).
RECURSIVE HydrateFrom(_, _, _)
HydrateFrom(st, entries, i) ==
  IF i > Len(entries) THEN [store |-> st, threw |-> FALSE]
  ELSE
    LET symbol == entries[i].symbol
        history == entries[i].history
    IN IF ~entries[i].isArray
         THEN [store |-> Store(st.dataStore, st.lastUpdate,
                               MapSet(st.updateHistory, symbol, <<Null>>)),
               threw |-> TRUE]
       ELSE IF Len(history) > 0
         THEN LET latest == Last(history) IN
              HydrateFrom(
                Store(MapSet(st.dataStore, symbol,
                             [currentPrice |-> latest.price,
                              timestamp |-> latest.timestamp,
                              source |-> StoredSource(latest),
                              verified |-> latest.verified]),
                      MapSet(st.lastUpdate, symbol, latest.timestamp),
                      MapSet(st.updateHistory, symbol, history)),
                entries, i + 1)
       ELSE HydrateFrom(Store(st.dataStore, st.lastUpdate,
                              MapSet(st.updateHistory, symbol, history)),
                        entries, i + 1)

\* The maps after the forEach of loadStoredData over the entries.
Hydrate(st, entries) == HydrateFrom(st, entries, 1).store

\* Array.prototype.slice(-n)
SliceLast(h, n) == IF Len(h) > n THEN SubSeq(h, Len(h) - n + 1, Len(h)) ELSE h

\* ------------------------------------------------------ getHistoricalData
\* The window of a period in hours (the code writes it in milliseconds:
\* 60 * 60 * 1000 is one hour); an unknown period is one week.
\* (an unknown period is one day)
WindowHours_defaultDay(period) ==
  CASE period = "1H" -> 1
    [] period = "1D" -> 24
    [] period = "1W" -> 7 * 24
    [] period = "1M" -> 30 * 24
    [] period = "3M" -> 90 * 24
    [] period = "1Y" -> 365 * 24
    [] OTHER -> 24

WindowHours(period) ==
  CASE period = "1H" -> 1
    [] period = "1D" -> 24
    [] period = "1W" -> 7 * 24
    [] period = "1M" -> 30 * 24
    [] period = "3M" -> 90 * 24
    [] period = "1Y" -> 365 * 24
    [] OTHER -> 7 * 24

\* (the point at the cutoff is left out)
InWindow_strict(timestamp, cutoffTime) == TimeGT(timestamp, cutoffTime)

\* point.timestamp >= cutoffTime
InWindow(timestamp, cutoffTime) == TimeGE(timestamp, cutoffTime)

\* history.filter(...).map(...) from index i on.
RECURSIVE FilterMap(_, _, _)
FilterMap(history, i, cutoffTime) ==
  IF i > Len(history) THEN << >>
  ELSE IF InWindow(history[i].timestamp, cutoffTime)
    THEN <<[price |-> history[i].price,
            timestamp |-> history[i].timestamp,
            verified |-> history[i].verified]>>
         \o FilterMap(history, i + 1, cutoffTime)
    ELSE FilterMap(history, i + 1, cutoffTime)

getHistoricalData(uh, symbol, period, now) ==
  LET history == IF MapHas(uh, symbol) THEN uh[symbol] ELSE << >> IN
  IF Len(history) = 0 THEN << >>
  ELSE FilterMap(history, 1, MinusHours(now, WindowHours(period)))

\* --------------------------------------------------- verifyAndConsolidate
\* A JavaScript number that is a quotient of integers, in lowest terms.
RECURSIVE GCD(_, _)
GCD(a, b) == IF b = 0 THEN a ELSE GCD(b, a % b)

Abs(x) == IF x < 0 THEN 0 - x ELSE x

Rat(n, d) ==
  LET g == GCD(Abs(n), Abs(d)) IN
  IF g = 0 THEN [num |-> n, den |-> d] ELSE [num |-> n \div g, den |-> d \div g]

\* (one threshold, 0.02, for every collector)
Threshold_uniform(c) == [num |-> 1, den |-> 50]

\* The verification threshold of a collector's verifyAndConsolidate, as a
\* quotient: 0.02, 0.005, 0.01, 0.15, 0.25, 0.10.
Threshold(c) ==
  CASE c = "crypto"     -> [num |-> 1, den |-> 50]
    [] c = "stocks"     -> [num |-> 1, den |-> 200]
    [] c = "metals"     -> [num |-> 1, den |-> 100]
    [] c = "consumer"   -> [num |-> 3, den |-> 20]
    [] c = "luxury"     -> [num |-> 1, den |-> 4]
    [] c = "realestate" -> [num |-> 1, den |-> 10]

\* The sum of the numbers of a list from index i on (forEach, reduce).
RECURSIVE SumFrom(_, _)
SumFrom(xs, i) == IF i > Len(xs) THEN 0 ELSE xs[i] + SumFrom(xs, i + 1)

\* Array.prototype.sort((a, b) => b.reliability - a.reliability): a stable
\* sort, the most reliable first.
RECURSIVE InsertByReliability(_, _)
\* (of two equally reliable observations the later one comes first)
InsertByReliability_lastWins(sorted, x) ==
  IF sorted = << >> THEN <<x>>
  ELSE IF x.reliability >= sorted[1].reliability THEN <<x>> \o sorted
  ELSE <<sorted[1]>> \o InsertByReliability(Tail(sorted), x)

InsertByReliability(sorted, x) ==
  IF sorted = << >> THEN <<x>>
  ELSE IF x.reliability > sorted[1].reliability THEN <<x>> \o sorted
  ELSE <<sorted[1]>> \o InsertByReliability(Tail(sorted), x)

RECURSIVE SortByReliability(_, _)
SortByReliability(srcs, i) ==
  IF i = 0 THEN << >>
  ELSE InsertByReliability(SortByReliability(srcs, i - 1), srcs[i])

\* (no separate case for a single observation)
IsSingle_never(srcs) == FALSE

\* sources.length === 1
IsSingle(srcs) == Len(srcs) = 1

\* (a coefficient of variation equal to the threshold passes)
CvBelow_orEqual(spread, sum, thr) ==
  IF sum > 0
    THEN spread <= (thr.num * thr.num * sum * sum) \div (thr.den * thr.den)
    ELSE sum < 0

\* coefficientOfVariation < threshold, for n prices of sum `sum` and of
\* spread = n * (sum of squares) - sum^2, which is n^2 times the variance:
\* the coefficient is sqrt(spread) / sum.  A positive mean gives the
\* comparison of the squares, spread / sum^2 < thr^2, written with the
\* quotient rounded up so that no product leaves the 32-bit integers of
\* the checker; a negative mean gives a coefficient that is negative (or
\* -0) and so below every threshold; a mean of 0 gives Infinity or NaN,
\* below no threshold.
CvBelow(spread, sum, thr) ==
  IF sum > 0
    THEN LET r == thr.num * thr.num * sum * sum
             d == thr.den * thr.den
         IN spread < (r + d - 1) \div d
    ELSE sum < 0

\* (the weighted average whatever the verification says)
ConsolidatedPrice_alwaysAverage(verified, weightedSum, totalWeight, primary) ==
  Rat(weightedSum, totalWeight)

\* price: verified ? weightedAverage : primarySource.price
ConsolidatedPrice(verified, weightedSum, totalWeight, primary) ==
  IF verified THEN Rat(weightedSum, totalWeight) ELSE Rat(primary.price, 1)

\* The value returned for the array srcs by the collector whose threshold is
\* thr.  The field variance holds the square of the coefficient of variation
\* that the code returns (the square root has no exact value here).
verifyAndConsolidate(srcs, thr) ==
  IF IsSingle(srcs)
    THEN [price |-> Rat(srcs[1].price, 1),
          primarySource |-> srcs[1].source,
          verified |-> FALSE,
          variance |-> Rat(0, 1)]
    ELSE
      LET n == Len(srcs)
          totalWeight == SumFrom([k \in 1..n |-> srcs[k].reliability], 1)
          weightedSum ==
            SumFrom([k \in 1..n |-> srcs[k].price * srcs[k].reliability], 1)
          prices == [k \in 1..n |-> srcs[k].price]
          sum == SumFrom(prices, 1)
          \* variance / mean^2 = (n * sum of squares - sum^2) / sum^2
          spread ==
            n * SumFrom([k \in 1..n |-> prices[k] * prices[k]], 1) - sum * sum
          verified == CvBelow(spread, sum, thr)
          primarySource == SortByReliability(srcs, n)[1]
      IN [price |-> ConsolidatedPrice(verified, weightedSum, totalWeight,
                                      primarySource),
          primarySource |-> primarySource.source,
          verified |-> verified,
          variance |-> Rat(spread, sum * sum)]

\* The array after the call: sort works in place.
SourcesAfter(srcs) ==
  IF IsSingle(srcs) THEN srcs ELSE SortByReliability(srcs, Len(srcs))

\* ------------------------------------------------------------- collectors
\* The frames a per-symbol collection returns.
FailResult(sym, reason) ==
  [symbol |-> sym, success |-> FALSE, error |-> reason, price |-> None,
   source |-> Null, verified |-> Some(FALSE)]

OkResult(sym, v, n) ==
  [symbol |-> sym, success |-> TRUE, price |-> Some(v.price),
   source |-> v.primarySource, verified |-> Some(v.verified),
   sources |-> n, variance |-> v.variance]

\* How the call of a source adapter ends: it throws, or it returns a number
\* or nothing (null, undefined, NaN); Skipped stands for an adapter the
\* collector does not call because its API key is not configured.
Throws == [kind |-> "throw", value |-> None]

Returns(v) == [kind |-> "return", value |-> v]

Skipped == [kind |-> "skip", value |-> None]

\* An adapter that hands on what the service answers, the number that the
\* response carries as it is, and lets a failed request throw.
ApiOuts ==
  {Throws, Returns(None)} \cup {Returns(Some(p)) : p \in {-100, 0, 100, 104}}

\* The same with a try/catch of its own.
QuietApiOuts == ApiOuts \ {Throws}

\* A scraper: it catches its own faults and returns a price only inside
\* its plausible range.
ScraperOuts == {Returns(None), Returns(Some(100)), Returns(Some(104))}

\* A placeholder that returns null.
StubOuts == {Returns(None)}

Adapter(src, rel, keyed, outs) ==
  [source |-> src, reliability |-> rel, keyed |-> keyed, outs |-> outs]

\* The source adapters of a collector for the symbols of SymbolsOf, in the
\* order they are called, with their reliability in hundredths.
AdaptersOf(c) ==
  CASE c = "crypto" ->
         <<Adapter("CoinGecko", 90, FALSE, ApiOuts),
           Adapter("Binance", 95, FALSE, ApiOuts),
           Adapter("CoinMarketCap", 92, TRUE, ApiOuts)>>
    [] c = "stocks" ->
         <<Adapter("AlphaVantage", 92, TRUE, ApiOuts),
           Adapter("FinancialModelingPrep", 90, TRUE, ApiOuts),
           Adapter("Yahoo Finance", 88, FALSE, ScraperOuts),
           Adapter("MarketWatch", 86, FALSE, ScraperOuts),
           Adapter("IEX Cloud", 89, TRUE, ApiOuts)>>
    [] c = "metals" ->
         <<Adapter("MetalsAPI", 90, FALSE, ApiOuts),
           Adapter("GoldPrice.org", 85, FALSE, ScraperOuts),
           Adapter("APMEX", 88, FALSE, ScraperOuts),
           Adapter("FinancialModelingPrep", 92, TRUE, QuietApiOuts)>>
    [] c = "consumer" ->
         <<Adapter("USDA", 95, FALSE, ApiOuts),
           Adapter("Walmart", 80, FALSE, StubOuts),
           Adapter("Target", 82, FALSE, StubOuts)>>
    [] c = "luxury" ->
         <<Adapter("Chrono24", 88, FALSE, ScraperOuts),
           Adapter("Bob's Watches", 85, FALSE, StubOuts),
           Adapter("WatchStation", 82, FALSE, StubOuts)>>
    [] c = "realestate" ->
         <<Adapter("FRED", 95, TRUE, QuietApiOuts),
           Adapter("Zillow Research", 90, FALSE, StubOuts),
           Adapter("Redfin", 88, FALSE, ScraperOuts),
           Adapter("NAR", 92, FALSE, StubOuts)>>

\* The outcomes the environment can give the i-th adapter of a collector.
OutsOf(c, i) ==
  AdaptersOf(c)[i].outs \cup (IF AdaptersOf(c)[i].keyed THEN {Skipped} ELSE {})

\* The collectors that filter their observations before consolidation:
\* sources.filter(s => s && s.price > 0).
Filters(c) == c \in {"consumer", "luxury", "realestate"}

\* if (price): null, undefined, NaN and 0 are not pushed.
Truthy(v) == v # None /\ v[1] # 0

\* (a fault of one adapter ends the collection of the symbol)
AdapterFaultEscapes_always(logFaults) == TRUE

\* The catch block around an adapter call logs a warning; the fault
\* leaves the block only if that logger call throws in its turn.
AdapterFaultEscapes(logFaults) == "warn" \in logFaults

\* The adapter calls of one symbol from the i-th on: the sources called,
\* the observations pushed, and whether a fault left a catch block.
RECURSIVE CallAdapters(_, _, _, _, _)
CallAdapters(ads, outs, i, logFaults, acc) ==
  IF i > Len(ads) THEN acc
  ELSE IF outs[i].kind = "skip"
    THEN CallAdapters(ads, outs, i + 1, logFaults, acc)
  ELSE LET called == [acc EXCEPT !.invoked = Append(acc.invoked, ads[i].source)]
       IN IF outs[i].kind = "throw"
            THEN IF AdapterFaultEscapes(logFaults)
                   THEN [called EXCEPT !.aborted = TRUE]
                   ELSE CallAdapters(ads, outs, i + 1, logFaults, called)
          ELSE IF Truthy(outs[i].value)
            THEN CallAdapters(ads, outs, i + 1, logFaults,
                   [called EXCEPT !.sources =
                      Append(acc.sources,
                             [source |-> ads[i].source,
                              price |-> outs[i].value[1],
                              reliability |-> ads[i].reliability])])
          ELSE CallAdapters(ads, outs, i + 1, logFaults, called)

IsPositive(s) == s.price > 0

\* (no filter in any collector)
ValidSources_unfiltered(c, srcs) == srcs

\* The array a collector hands to the consolidation.
ValidSources(c, srcs) == IF Filters(c) THEN SelectSeq(srcs, IsPositive) ELSE srcs

\* sources.length === 0
NoneValid(valid) == Len(valid) = 0

\* The catch block of the per-symbol collection logs an error; it throws
\* only if that logger call throws.
HandlerFaults(logFaults) == "error" \in logFaults

\* collectCryptoPrice, collectStockPrice, collectMetalPrice, collectGoodPrice,
\* collectLuxuryPrice, collectRealEstatePrice for one symbol: outs are the
\* outcomes of its adapters, logFaults the logger calls that throw ("warn"
\* in an adapter's catch block, "info" at the end of verifyAndConsolidate,
\* "error" in the catch block of the collection).
collectPrice(c, sym, outs, logFaults) ==
  LET g == CallAdapters(AdaptersOf(c), outs, 1, logFaults,
                        [invoked |-> << >>, sources |-> << >>, aborted |-> FALSE])
      valid == ValidSources(c, g.sources)
      consolidates == ~g.aborted /\ ~NoneValid(valid)
      infoFault == consolidates /\ ~IsSingle(valid) /\ "info" \in logFaults
      caught == g.aborted \/ infoFault
  IN [kind |-> IF caught /\ HandlerFaults(logFaults) THEN "throw" ELSE "return",
      result |->
        IF caught THEN FailResult(sym, "fault")
        ELSE IF NoneValid(valid)
          THEN FailResult(sym, IF Filters(c) THEN "No valid sources available"
                               ELSE "No sources available")
        ELSE OkResult(sym, verifyAndConsolidate(valid, Threshold(c)), Len(valid)),
      invoked |-> g.invoked,
      gathered |-> g.sources,
      consolidated |-> IF consolidates THEN <<valid>> ELSE << >>]

\* What the sources and the logger do in one run of the process:
\*   outs      symbol -> the outcomes of its adapters;
\*   logger    symbol -> the logger calls that throw while it is collected;
\*   rejecting the collectors in whose collectData the logger call of the
\*             catch block throws.
Env(outs, logger, rejecting) ==
  [outs |-> outs, logger |-> logger, rejecting |-> rejecting]

\* (collectData lets the fault through)
Rejects_always(e, c) == TRUE

\* The catch block of collectData logs an error; the call rejects only if
\* that logger call throws.
Rejects(e, c) == c \in e.rejecting

\* (the catch block of collectData leaves the status as it is)
StatusAfterCatch_unchanged == "collecting"

\* this.status = 'error'
StatusAfterCatch == "error"

\* The for loop of collectData from the i-th symbol on.  How the call ends:
\* it returns the results of all its symbols (status 'completed'); or a
\* fault leaves a per-symbol collection, is caught, and the call returns
\* the results gathered so far (status 'error'); or the logger call of the
\* catch block throws and the call rejects (status still 'collecting').
RECURSIVE CollectLoop(_, _, _, _)
CollectLoop(e, c, i, results) ==
  IF i > Len(SymbolsOf(c))
    THEN [kind |-> "return", status |-> "completed", results |-> results]
  ELSE LET sym == SymbolsOf(c)[i]
           r == collectPrice(c, sym, e.outs[sym], e.logger[sym])
       IN IF r.kind = "throw"
            THEN IF Rejects(e, c)
                   THEN [kind |-> "throw", status |-> "collecting",
                         results |-> << >>]
                   ELSE [kind |-> "return", status |-> StatusAfterCatch,
                         results |-> results]
            ELSE CollectLoop(e, c, i + 1, Append(results, r.result))

\* collectData of collector c.
Outcome(e, c) == CollectLoop(e, c, 1, << >>)

SymbolSet(c) == {SymbolsOf(c)[k] : k \in 1..Len(SymbolsOf(c))}

AllSymbols == UNION {SymbolSet(c) : c \in Collectors}

CollectorOf(sym) == CHOOSE c \in Collectors : sym \in SymbolSet(c)

\* No source has anything for the symbol and no optional key is set.
Silent(c) ==
  [i \in 1..Len(AdaptersOf(c)) |->
     IF AdaptersOf(c)[i].keyed THEN Skipped ELSE Returns(None)]

SilentOuts == [sym \in AllSymbols |-> Silent(CollectorOf(sym))]

NoLogFaults == [sym \in AllSymbols |-> {}]

QuietEnv == Env(SilentOuts, NoLogFaults, {})

\* Two sources agree on BTC within the threshold.
BtcAgreed == <<Returns(Some(100)), Returns(Some(104)), Skipped>>

\* Binance alone answers for BTC.
BtcSingle == <<Returns(None), Returns(Some(100)), Skipped>>

\* Collectors that fail beside collectors that answer: the sources of ETH
\* throw or have nothing; one scraper answers for SPY and for ROLEX-SUB; a
\* fault leaves the collection of XAU, of EGGS and of HOUSE-US, and the
\* collectData of metals and of real estate rejects.
FaultyEnv ==
  Env(("BTC" :> BtcAgreed)
        @@ ("ETH" :> <<Throws, Returns(None), Skipped>>)
        @@ ("SPY" :> <<Skipped, Skipped, Returns(Some(100)), Returns(None), Skipped>>)
        @@ ("XAU" :> <<Throws, Returns(None), Returns(None), Skipped>>)
        @@ ("EGGS" :> <<Throws, Returns(None), Returns(None)>>)
        @@ ("ROLEX-SUB" :> <<Returns(Some(100)), Returns(None), Returns(None)>>)
        @@ ("HOUSE-US" :> <<Returns(Some(100)), Returns(None),
                            Returns(Some(104)), Returns(None)>>),
      ("XAU" :> {"warn", "error"}) @@ ("EGGS" :> {"warn", "error"})
        @@ ("HOUSE-US" :> {"info", "error"}) @@ NoLogFaults,
      {"metals", "realestate"})

\* Both symbols of the crypto collector are priced, and the only source
\* that answers for SPY reports a negative price.
NegativeEnv ==
  Env(("BTC" :> BtcAgreed) @@ ("ETH" :> BtcSingle)
        @@ ("SPY" :> <<Returns(Some(-100)), Skipped, Returns(None),
                       Returns(None), Skipped>>)
        @@ SilentOuts,
      NoLogFaults, {})

\* Only BTC is priced, by one source.
SingleEnv == Env(("BTC" :> BtcSingle) @@ SilentOuts, NoLogFaults, {})

\* ---------------------------------------------------------------- state
\* The state of one collectData call of a cycle and, once it has returned,
\* its results.
NoCall == [state |-> "none", results |-> << >>]

PendingCall == [state |-> "pending", results |-> << >>]

SettledCall(o) ==
  [state |-> IF o.kind = "throw" THEN "thrown" ELSE "resolved",
   results |-> o.results]

CurrentStore == Store(dataStore, lastUpdate, updateHistory)

InitAgent ==
  /\ isUpdating = FALSE
  /\ dataStore = EmptyMap
  /\ lastUpdate = EmptyMap
  /\ updateHistory = EmptyMap
  /\ status = [c \in Collectors |-> "initialized"]
  /\ pc = [t \in Triggers |-> "idle"]
  /\ call = [t \in Triggers |-> [c \in Collectors |-> NoCall]]
  /\ successCount = [t \in Triggers |-> 0]
  /\ errorCount = [t \in Triggers |-> 0]
  /\ response = 0
  /\ clock = StartClock
  /\ clockSteps = 0
  /\ loadPc = "pathExists"
  /\ savePc = "idle"
  /\ dataToSave = EmptyMap
  /\ lastTrigger = "none"

NoResult ==
  [price |-> Rat(0, 1), primarySource |-> Null, verified |-> FALSE,
   variance |-> Rat(0, 1)]

InitCons ==
  /\ sources = << >>
  /\ collector = "crypto"
  /\ consolidated = [done |-> FALSE, input |-> << >>, result |-> NoResult]

InitQuery ==
  /\ queryArgs = [symbol |-> "none", period |-> "none"]
  /\ queryResult = << >>

NotCollected ==
  [done |-> FALSE, symbol |-> "none", kind |-> "none",
   result |-> FailResult("none", "none"), invoked |-> << >>,
   gathered |-> << >>, consolidated |-> << >>,
   call |-> [kind |-> "none", status |-> "initialized", results |-> << >>]]

InitCollect == collected = NotCollected

\* No callback of a timer is due, no adapter has been called, no status
\* query has been answered.
InitRest ==
  /\ due = {}
  /\ triggered = {}
  /\ adapterCalls = << >>
  /\ statusReport =
       [answered |-> FALSE, status |-> "none", isUpdating |-> FALSE,
        lastUpdate |-> None, trackedItems |-> 0, collectors |-> << >>]
  /\ pricesReport =
       [answered |-> FALSE, prices |-> << >>, lastUpdate |-> None,
        totalItems |-> 0]

\* A run of the process: the stored file it finds, what the sources do,
\* and how many update cycles and saves happen before it is stopped.
Run(f, e, nCycles, nSaves) ==
  [file |-> f, env |-> e, cycles |-> nCycles, saves |-> nSaves]

InitRun(runs) ==
  /\ InitAgent /\ InitCons /\ InitQuery /\ InitCollect /\ InitRest
  /\ \E r \in runs :
       /\ file = r.file
       /\ env = r.env
       /\ outcomes = [c \in Collectors |-> Outcome(r.env, c)]
       /\ cycles = r.cycles
       /\ saves = r.saves

\* The runs of Spec: collectors that fail beside collectors that answer; a
\* short stored file and a success with a negative price; a run with a save.
Init ==
  InitRun({Run(NoFile, FaultyEnv, MaxCycles, 0),
           Run(StoredFile(2), NegativeEnv, MaxCycles, 0),
           Run(StoredFile(1), SingleEnv, MaxCycles - 1, MaxSaves)})

\* --------------------------------------------------------------- the clock
Tick ==
  /\ clockSteps < MaxClockSteps
  /\ clock' = PlusMs(clock, 1)
  /\ clockSteps' = clockSteps + 1
  /\ lastTrigger' = "none"
  /\ UNCHANGED <<isUpdating, dataStore, lastUpdate, updateHistory, status, pc,
                 call, successCount, errorCount, response, cycles, file,
                 loadPc, savePc, dataToSave, saves>>
  /\ UNCHANGED <<envVars, consVars, queryVars, collectVars, schedVars,
                 adapterCalls, statusReport,
                 pricesReport>>

\* ------------------------------------------------------- updateAllPrices
\* (no test of the flag)
AlreadyUpdating_never == FALSE

\* The test at the head of updateAllPrices.
AlreadyUpdating == isUpdating

\* From isUpdating = true to the await of Promise.all: every collector's
\* collectData has run up to its first await and set its status.
BeginCycle(t) ==
  /\ pc[t] = "idle"
  /\ cycles > 0
  /\ isUpdating' = TRUE
  /\ pc' = [pc EXCEPT ![t] = "running"]
  /\ call' = [call EXCEPT ![t] = [c \in Collectors |-> PendingCall]]
  /\ status' = [c \in Collectors |-> "collecting"]
  /\ successCount' = [successCount EXCEPT ![t] = 0]
  /\ errorCount' = [errorCount EXCEPT ![t] = 0]
  /\ cycles' = cycles - 1
  /\ UNCHANGED <<dataStore, lastUpdate, updateHistory>>

\* (the early return placed inside the try, so that finally clears the flag)
SkipCycle_clearsFlag ==
  /\ isUpdating' = FALSE
  /\ UNCHANGED <<pc, call, status, successCount, errorCount, cycles,
                 dataStore, lastUpdate, updateHistory>>

\* 'Update already in progress, skipping'
SkipCycle ==
  UNCHANGED <<isUpdating, pc, call, status, successCount, errorCount, cycles,
              dataStore, lastUpdate, updateHistory>>

updateAllPrices(t) == IF AlreadyUpdating THEN SkipCycle ELSE BeginCycle(t)

\* (the hourly update runs in every hour)
CronHourlyHours_every(hour) == TRUE

\* hour < 6 || hour > 22
CronHourlyHours(hour) == hour < MarketOpenHour \/ hour > MarketCloseHour

Cron5 ==
  /\ getHours(clock) >= MarketOpenHour /\ getHours(clock) <= MarketCloseHour
  /\ updateAllPrices("cron5")
  /\ lastTrigger' = "cron5"
  /\ UNCHANGED <<response, clock, clockSteps, file, loadPc, savePc, dataToSave, saves>>
  /\ UNCHANGED <<envVars, consVars, queryVars, collectVars, schedVars,
                 adapterCalls, statusReport,
                 pricesReport>>

CronHourly ==
  /\ CronHourlyHours(getHours(clock))
  /\ updateAllPrices("cronHourly")
  /\ lastTrigger' = "cronHourly"
  /\ UNCHANGED <<response, clock, clockSteps, file, loadPc, savePc, dataToSave, saves>>
  /\ UNCHANGED <<envVars, consVars, queryVars, collectVars, schedVars,
                 adapterCalls, statusReport,
                 pricesReport>>

\* (no test of the flag in the handler)
ManualRejects_never == FALSE

\* The test at the head of the POST /api/update handler.
ManualRejects == isUpdating

\* POST /api/update up to its answer or to the await of updateAllPrices.
\* response is the status of the last answer sent, 0 while none was sent
\* for the request in progress.
ManualUpdate ==
  /\ IF ManualRejects
       THEN /\ response' = 429
            /\ UNCHANGED <<isUpdating, pc, call, status, successCount,
                           errorCount, cycles, dataStore, lastUpdate,
                           updateHistory>>
       ELSE /\ updateAllPrices("manual")
            /\ response' = IF AlreadyUpdating THEN 200 ELSE 0
  /\ lastTrigger' = "manual"
  /\ UNCHANGED <<clock, clockSteps, file, loadPc, savePc, dataToSave, saves>>
  /\ UNCHANGED <<envVars, consVars, queryVars, collectVars, schedVars,
                 adapterCalls, statusReport,
                 pricesReport>>

\* (a collectData call that rejects makes updateAllPrices reject)
CycleRejects_onThrow(calls) ==
  \E c \in Collectors : calls[c].state = "thrown"

\* Whether the promise of updateAllPrices rejects once its tasks are
\* settled: the task of a collector catches the rejection of its
\* collectData call, so Promise.all has no rejected task, and the outer try
\* has a catch block.
CycleRejects(calls) == FALSE

\* The answer of POST /api/update after `await this.updateAllPrices()`:
\* res.json({success: true}), or status 500 from the catch block.
ManualAnswer(rejected) == IF rejected THEN 500 ELSE 200

\* (the cycle ends as soon as one task is settled)
BarrierOpen_any(calls) == \E c \in Collectors : calls[c].state # "pending"

\* (the cycle ends only when no task has failed)
BarrierOpen_noThrow(calls) == \A c \in Collectors : calls[c].state = "resolved"

\* Promise.all(updatePromises) is settled.
BarrierOpen(calls) == \A c \in Collectors : calls[c].state # "pending"

\* A collectData call ends, and the task that awaited it runs: the results
\* are applied, or the fault is counted.  When it was the last task of the
\* cycle, the continuation of updateAllPrices runs in the same turn of the
\* event loop: the finally block clears the flag, and the manual handler
\* answers.
CollectorSettle(t, c, o) ==
  /\ call[t][c].state = "pending"
  /\ o = outcomes[c]
  /\ status' = [status EXCEPT ![c] = o.status]
  /\ LET applied == ApplyResults(o.results, 1,
                      [store |-> CurrentStore,
                       successCount |-> successCount[t],
                       errorCount |-> errorCount[t]], clock)
         calls == [call[t] EXCEPT ![c] = SettledCall(o)]
         ends == pc[t] = "running" /\ BarrierOpen(calls)
     IN /\ call' = [call EXCEPT ![t] = calls]
        /\ IF o.kind = "throw"
             THEN /\ errorCount' = [errorCount EXCEPT
                                      ![t] = ErrorCountAfterThrow(errorCount[t])]
                  /\ UNCHANGED <<successCount, dataStore, lastUpdate,
                                 updateHistory>>
             ELSE /\ errorCount' = [errorCount EXCEPT ![t] = applied.errorCount]
                  /\ successCount' = [successCount EXCEPT
                                        ![t] = applied.successCount]
                  /\ dataStore' = applied.store.dataStore
                  /\ lastUpdate' = applied.store.lastUpdate
                  /\ updateHistory' = applied.store.updateHistory
        /\ isUpdating' = IF ends THEN FALSE ELSE isUpdating
        /\ pc' = IF ends THEN [pc EXCEPT ![t] = "idle"] ELSE pc
        /\ response' = IF ends /\ t = "manual"
                         THEN ManualAnswer(CycleRejects(calls)) ELSE response
  /\ lastTrigger' = "none"
  /\ UNCHANGED <<clock, clockSteps, cycles, file, loadPc, savePc, dataToSave, saves>>
  /\ UNCHANGED <<envVars, consVars, queryVars, collectVars, schedVars,
                 adapterCalls, statusReport,
                 pricesReport>>

Settle == \E t \in Triggers, c \in Collectors :
            CollectorSettle(t, c, outcomes[c])

\* --------------------------------------------------------- loadStoredData
\* await fs.pathExists(dataPath) is done.
LoadPathExists ==
  /\ loadPc = "pathExists"
  /\ loadPc' = IF file.exists THEN "readJson" ELSE "done"
  /\ lastTrigger' = "none"
  /\ UNCHANGED <<isUpdating, dataStore, lastUpdate, updateHistory, status, pc,
                 call, successCount, errorCount, response, clock, clockSteps,
                 cycles, file, savePc, dataToSave, saves>>
  /\ UNCHANGED <<envVars, consVars, queryVars, collectVars, schedVars,
                 adapterCalls, statusReport,
                 pricesReport>>

\* await fs.readJson(dataPath) is done: the entries are put in the maps, or
\* the read failed; a fault of the read or of the forEach is logged by the
\* catch block.
LoadReadJson ==
  /\ loadPc = "readJson"
  /\ \E ok \in BOOLEAN :
       \E r \in {IF ok /\ file.exists
                   THEN HydrateFrom(CurrentStore, ReadJson(file.data), 1)
                   ELSE [store |-> CurrentStore, threw |-> TRUE]} :
          /\ dataStore' = r.store.dataStore
          /\ lastUpdate' = r.store.lastUpdate
          /\ updateHistory' = r.store.updateHistory
          /\ loadPc' = IF r.threw THEN "failed" ELSE "done"
          /\ lastTrigger' = "none"
  /\ UNCHANGED <<isUpdating, status, pc, call, successCount, errorCount,
                 response, clock, clockSteps, cycles, file, savePc, dataToSave, saves>>
  /\ UNCHANGED <<envVars, consVars, queryVars, collectVars, schedVars,
                 adapterCalls, statusReport,
                 pricesReport>>

\* --------------------------------------------------------------- saveData
\* The 15-minute timer calls saveData, which awaits fs.ensureDir.
SaveStart ==
  /\ savePc = "idle"
  /\ saves > 0
  /\ savePc' = "ensureDir"
  /\ saves' = saves - 1
  /\ lastTrigger' = "none"
  /\ UNCHANGED <<isUpdating, dataStore, lastUpdate, updateHistory, status, pc,
                 call, successCount, errorCount, response, clock, clockSteps,
                 cycles, file, loadPc, dataToSave>>
  /\ UNCHANGED <<envVars, consVars, queryVars, collectVars, schedVars,
                 adapterCalls, statusReport,
                 pricesReport>>

\* The forEach of saveData: every history cut to its last 1000 points.
Snapshot(uh) == [s \in DOMAIN uh |-> SliceLast(uh[s], HistoryCap)]

\* ensureDir is done: dataToSave is built and fs.writeJson is awaited.
SaveSnapshot ==
  /\ savePc = "ensureDir"
  /\ dataToSave' = Snapshot(updateHistory)
  /\ savePc' = "writeJson"
  /\ lastTrigger' = "none"
  /\ UNCHANGED <<isUpdating, dataStore, lastUpdate, updateHistory, status, pc,
                 call, successCount, errorCount, response, clock, clockSteps,
                 cycles, file, loadPc, saves>>
  /\ UNCHANGED <<envVars, consVars, queryVars, collectVars, schedVars,
                 adapterCalls, statusReport,
                 pricesReport>>

\* (the file holds the histories as they are when the write ends)
SaveWritten_live ==
  /\ savePc = "writeJson"
  /\ file' = [exists |-> TRUE, data |-> WriteJson(Snapshot(updateHistory))]
  /\ dataToSave' = EmptyMap
  /\ savePc' = "idle"
  /\ lastTrigger' = "none"
  /\ UNCHANGED <<isUpdating, dataStore, lastUpdate, updateHistory, status, pc,
                 call, successCount, errorCount, response, clock, clockSteps,
                 cycles, loadPc, saves>>
  /\ UNCHANGED <<envVars, consVars, queryVars, collectVars, schedVars,
                 adapterCalls, statusReport, pricesReport>>

\* writeJson is done: the file holds dataToSave.
SaveWritten ==
  /\ savePc = "writeJson"
  /\ file' = [exists |-> TRUE, data |-> WriteJson(dataToSave)]
  /\ dataToSave' = EmptyMap
  /\ savePc' = "idle"
  /\ lastTrigger' = "none"
  /\ UNCHANGED <<isUpdating, dataStore, lastUpdate, updateHistory, status, pc,
                 call, successCount, errorCount, response, clock, clockSteps,
                 cycles, loadPc, saves>>
  /\ UNCHANGED <<envVars, consVars, queryVars, collectVars, schedVars,
                 adapterCalls, statusReport,
                 pricesReport>>

\* ensureDir or writeJson fails: the catch block logs it.
SaveFailed ==
  /\ savePc \in {"ensureDir", "writeJson"}
  /\ dataToSave' = EmptyMap
  /\ savePc' = "idle"
  /\ lastTrigger' = "none"
  /\ UNCHANGED <<isUpdating, dataStore, lastUpdate, updateHistory, status, pc,
                 call, successCount, errorCount, response, clock, clockSteps,
                 cycles, file, loadPc, saves>>
  /\ UNCHANGED <<envVars, consVars, queryVars, collectVars, schedVars,
                 adapterCalls, statusReport,
                 pricesReport>>

Next ==
  \/ Tick
  \/ Cron5
  \/ CronHourly
  \/ ManualUpdate
  \/ Settle
  \/ LoadPathExists
  \/ LoadReadJson
  \/ SaveStart
  \/ SaveSnapshot
  \/ SaveWritten
  \/ SaveFailed

Spec == Init /\ [][Next]_vars

\* The runs of StoreSpec: the stored history of BTC is at the cap, or one
\* point below it.
StoreSpec ==
  /\ InitRun({Run(StoredFile(HistoryCap - 1), SingleEnv, MaxCycles - 1, 0),
              Run(StoredFile(HistoryCap), SingleEnv, MaxCycles - 1, 0),
              Run(StoredFile(HistoryCap), QuietEnv, 0, MaxSaves)})
  /\ [][Next]_vars

\* The runs of SaveSpec: a cycle that adds a verified point to a short
\* stored history, and a save; a save of a stored history at the cap.
SaveSpec ==
  /\ InitRun({Run(StoredFile(2), NegativeEnv, MaxCycles - 1, MaxSaves),
              Run(StoredFile(HistoryCap), QuietEnv, 0, MaxSaves)})
  /\ [][Next]_vars

\* The runs of FailSpec: over a stored history of BTC, the crypto collector
\* has no source for BTC and one for ETH; or its only source for BTC reports
\* a negative price; every collector returns failures only; the first
\* source of every symbol throws and so does the logger, so that the
\* collectData of three collectors rejects and that of the three others
\* returns an empty list.
FailSpec ==
  /\ InitRun({Run(StoredFile(2),
                  Env(("ETH" :> BtcSingle) @@ SilentOuts, NoLogFaults, {}),
                  MaxCycles, 0),
              Run(StoredFile(2),
                  Env(("BTC" :> <<Returns(Some(-100)), Returns(None), Skipped>>)
                        @@ ("ETH" :> BtcSingle) @@ SilentOuts,
                      NoLogFaults, {}),
                  MaxCycles - 1, MaxSaves),
              Run(NoFile, QuietEnv, MaxCycles - 1, 0),
              Run(NoFile,
                  Env([sym \in AllSymbols |->
                         [i \in 1..Len(AdaptersOf(CollectorOf(sym))) |->
                            IF AdaptersOf(CollectorOf(sym))[i].keyed
                              THEN Skipped ELSE Throws]],
                      [sym \in AllSymbols |-> {"warn", "error"}],
                      {"metals", "luxury", "realestate"}),
                  MaxCycles - 1, 0)})
  /\ [][Next]_vars

\* ------------------------------------------- verifyAndConsolidate applied
SourceNames ==
  <<"AlphaVantage", "FinancialModelingPrep", "Yahoo Finance", "MarketWatch",
    "IEX Cloud">>

\* The arrays of one to MaxObs valid observations, the k-th from the k-th
\* source.  Prices an adapter can report: 100 and 104 differ by a
\* coefficient of variation of 1/51, 49 and 51 by exactly 1/50, and a price
\* read from a response can be negative.  Reliabilities are in hundredths
\* (0.80, 0.90).
ObservationLists ==
  UNION {{obs \in [1..n -> [source : {SourceNames[k] : k \in 1..n},
                             price : {-100, 49, 51, 100, 104, 150},
                             reliability : {80, 90}]] :
            \A k \in 1..n : obs[k].source = SourceNames[k]} : n \in 1..MaxObs}

ConsInit ==
  /\ InitAgent
  /\ file = NoFile
  /\ env = QuietEnv
  /\ outcomes = [c \in Collectors |-> Outcome(QuietEnv, c)]
  /\ cycles = 0
  /\ saves = 0
  /\ InitQuery
  /\ InitCollect
  /\ InitRest
  /\ sources \in ObservationLists
  /\ collector \in Collectors
  /\ consolidated = [done |-> FALSE, input |-> << >>, result |-> NoResult]

\* const verifiedPrice = this.verifyAndConsolidate(sources)
Consolidate ==
  /\ ~consolidated.done
  /\ consolidated' = [done |-> TRUE, input |-> sources,
                      result |-> verifyAndConsolidate(sources,
                                                      Threshold(collector))]
  /\ sources' = SourcesAfter(sources)
  /\ UNCHANGED <<collector, agentVars, envVars, queryVars, collectVars,
                 schedVars, adapterCalls, statusReport,
                 pricesReport>>

ConsSpec == ConsInit /\ [][Consolidate]_vars

\* ---------------------------------------------- getHistoricalData applied
Periods == {"1H", "1D", "1W", "1M", "3M", "1Y"}

\* For each window the instant at its start and the instant one
\* millisecond before, and the present.
BoundaryTimes(now) ==
  {now} \cup UNION {{MinusHours(now, WindowHours(p)),
                     PlusMs(MinusHours(now, WindowHours(p)), -1)} : p \in Periods}

\* The histories of at most MaxQueryPoints points at those instants, in
\* the order of their timestamps, as saveData stores them.
QueryHistories(now) ==
  UNION {{h \in [1..n -> [price : {[num |-> 1, den |-> 1], [num |-> 2, den |-> 1]},
                           timestamp : BoundaryTimes(now),
                           source : {"Binance"}, verified : {TRUE}]] :
            /\ \A k \in 1..n : h[k].price.num = 1 + (k % 2)
            /\ \A k \in 1..(n - 1) : TimeGE(h[k + 1].timestamp, h[k].timestamp)} :
         n \in 0..MaxQueryPoints}

\* The agent some time after it has loaded a stored history of BTC.
QueryInit ==
  /\ isUpdating = FALSE
  /\ status = [c \in Collectors |-> "initialized"]
  /\ pc = [t \in Triggers |-> "idle"]
  /\ call = [t \in Triggers |-> [c \in Collectors |-> NoCall]]
  /\ successCount = [t \in Triggers |-> 0]
  /\ errorCount = [t \in Triggers |-> 0]
  /\ response = 0
  /\ clockSteps = 0
  /\ cycles = 0
  /\ saves = 0
  /\ loadPc = "done"
  /\ savePc = "idle"
  /\ dataToSave = EmptyMap
  /\ lastTrigger = "none"
  /\ env = QuietEnv
  /\ outcomes = [c \in Collectors |-> Outcome(QuietEnv, c)]
  /\ InitCons
  /\ InitQuery
  /\ InitCollect
  /\ InitRest
  /\ clock \in {Time(StartClock.h, 0), Time(StartClock.h, 5)}
  /\ \E h \in QueryHistories(clock) :
       LET text == WriteJson([s \in {"BTC"} |-> h])
           st == Hydrate(Store(EmptyMap, EmptyMap, EmptyMap), ReadJson(text))
       IN /\ file = [exists |-> TRUE, data |-> text]
          /\ dataStore = st.dataStore
          /\ lastUpdate = st.lastUpdate
          /\ updateHistory = st.updateHistory

\* GET /api/historical/:symbol?period=...
Query ==
  \E symbol \in {"BTC", "ETH"}, period \in Periods \cup {"2W"} :
    /\ queryArgs' = [symbol |-> symbol, period |-> period]
    /\ queryResult' = getHistoricalData(updateHistory, symbol, period, clock)
    /\ UNCHANGED <<agentVars, envVars, consVars, collectVars, schedVars,
                 adapterCalls, statusReport,
                 pricesReport>>

QuerySpec == QueryInit /\ [][Query]_vars

\* ------------------------------------------- the collection of one symbol

\* The sequences of n outcomes, the i-th one of the i-th adapter of c.
AdapterOuts(c) ==
  {outs \in [1..Len(AdaptersOf(c)) -> UNION {OutsOf(c, i) : i \in 1..Len(AdaptersOf(c))}] :
     \A i \in 1..Len(AdaptersOf(c)) : outs[i] \in OutsOf(c, i)}

\* A collector, one of its symbols, what the sources of that symbol and
\* the logger do; the sources of the other symbols have nothing.
CollectInit ==
  /\ InitAgent
  /\ file = NoFile
  /\ cycles = 0
  /\ saves = 0
  /\ InitQuery
  /\ InitRest
  /\ sources = << >>
  /\ consolidated = [done |-> FALSE, input |-> << >>, result |-> NoResult]
  /\ collector \in Collectors
  /\ \E sym \in SymbolSet(collector), outs \in AdapterOuts(collector),
        logFaults \in SUBSET {"warn", "info", "error"},
        rejecting \in {{}, {collector}} :
       /\ env = Env((sym :> outs) @@ SilentOuts,
                    (sym :> logFaults) @@ NoLogFaults, rejecting)
       /\ collected = [NotCollected EXCEPT !.symbol = sym]
  /\ outcomes = [c \in Collectors |-> Outcome(env, c)]

\* collectData of the collector, and in it the collection of the symbol.
Collect ==
  /\ ~collected.done
  /\ LET sym == collected.symbol
         r == collectPrice(collector, sym, env.outs[sym], env.logger[sym])
     IN collected' = [done |-> TRUE, symbol |-> sym, kind |-> r.kind,
                      result |-> r.result, invoked |-> r.invoked,
                      gathered |-> r.gathered, consolidated |-> r.consolidated,
                      call |-> Outcome(env, collector)]
  /\ UNCHANGED <<agentVars, envVars, consVars, queryVars, schedVars,
                 adapterCalls, statusReport,
                 pricesReport>>

CollectSpec == CollectInit /\ [][Collect]_vars

\* ------------------------------------------- the adapter calls in time
\* The collection of one symbol, adapter call by adapter call.  Each
\* adapter is called by `await this.get...(...)` inside its own try block,
\* so the next one is called when the promise of the one before is
\* settled.  adapterCalls[i] is "waiting" (not called yet), "skipped" (not
\* called, no API key), "inFlight" or "settled".
RECURSIVE CallNext(_, _, _)
CallNext(states, outs, i) ==
  IF i > Len(states) THEN states
  ELSE IF outs[i].kind = "skip"
    THEN CallNext([states EXCEPT ![i] = "skipped"], outs, i + 1)
  ELSE [states EXCEPT ![i] = "inFlight"]

\* What collectData has made of the symbol when no adapter call is left.
Collected(sym) ==
  LET r == collectPrice(collector, sym, env.outs[sym], env.logger[sym])
  IN [done |-> TRUE, symbol |-> sym, kind |-> r.kind,
      result |-> r.result, invoked |-> r.invoked,
      gathered |-> r.gathered, consolidated |-> r.consolidated,
      call |-> Outcome(env, collector)]

\* The collection of the symbol begins: it runs up to its first await.
BeginCollect ==
  /\ ~collected.done
  /\ adapterCalls = << >>
  /\ LET sym == collected.symbol
         n == Len(AdaptersOf(collector))
         states == CallNext([i \in 1..n |-> "waiting"], env.outs[sym], 1)
     IN /\ adapterCalls' = states
        /\ collected' = IF \E k \in 1..Len(states) : states[k] = "inFlight"
                           THEN collected
                         ELSE Collected(sym)
  /\ UNCHANGED <<agentVars, envVars, consVars, queryVars, schedVars,
                 statusReport, pricesReport>>

\* The adapter call in flight is settled and the collection runs on to its
\* next await, or to its end: after a fault that leaves the catch block no
\* further adapter is called.
AdapterSettles ==
  /\ ~collected.done
  /\ \E i \in 1..Len(adapterCalls) :
       /\ adapterCalls[i] = "inFlight"
       /\ LET sym == collected.symbol
              settled == [adapterCalls EXCEPT ![i] = "settled"]
              aborts == /\ env.outs[sym][i].kind = "throw"
                        /\ AdapterFaultEscapes(env.logger[sym])
              states == IF aborts THEN settled
                        ELSE CallNext(settled, env.outs[sym], i + 1)
          IN /\ adapterCalls' = states
             /\ collected' = IF \E k \in 1..Len(states) : states[k] = "inFlight"
                           THEN collected
                              ELSE Collected(sym)
  /\ UNCHANGED <<agentVars, envVars, consVars, queryVars, schedVars,
                 statusReport, pricesReport>>

AdapterSpec == CollectInit /\ [][BeginCollect \/ AdapterSettles]_vars

\* -------------------------------------------------------- GET /api/status
\* Object.keys(this.collectors), in the order of the constructor.
CollectorKeys ==
  <<"crypto", "stocks", "metals", "consumer", "luxury", "realestate">>

\* getStatus() of a collector: an object, tagged with its typeof.  symbols
\* counts the symbols of SymbolsOf; the collector's own lastUpdate, which
\* no claim reads, is left out.
getStatus(c) ==
  [type |-> "object",
   name |-> CASE c = "crypto"     -> "Cryptocurrency Collector"
              [] c = "stocks"     -> "Stock Index Collector"
              [] c = "metals"     -> "Precious Metals Collector"
              [] c = "consumer"   -> "Consumer Goods Collector"
              [] c = "luxury"     -> "Luxury Goods Collector"
              [] c = "realestate" -> "Real Estate Collector",
   status |-> status[c],
   symbols |-> Len(SymbolsOf(c))]

\* (the status query clears the in-flight flag)
StatusQuery_clearsFlag ==
  /\ statusReport' = [statusReport EXCEPT !.answered = TRUE]
  /\ isUpdating' = FALSE
  /\ lastTrigger' = "none"
  /\ UNCHANGED <<dataStore, lastUpdate, updateHistory, status, pc,
                 call, successCount, errorCount, response, clock, clockSteps,
                 cycles, file, loadPc, savePc, dataToSave, saves>>
  /\ UNCHANGED <<envVars, consVars, queryVars, collectVars, schedVars,
                 adapterCalls, pricesReport>>

\* The handler of GET /api/status.  lastUpdate is
\* Math.max(...Array.from(this.lastUpdate.values())): -Infinity, which
\* res.json writes as null, when the map is empty.
StatusQuery ==
  /\ statusReport' =
       [answered |-> TRUE,
        status |-> "running",
        isUpdating |-> isUpdating,
        lastUpdate |->
          IF DOMAIN lastUpdate = {} THEN None
          ELSE LET times == {lastUpdate[k] : k \in DOMAIN lastUpdate}
               IN Some(CHOOSE t \in times : \A u \in times : TimeGE(t, u)),
        trackedItems |-> Cardinality(DOMAIN dataStore),
        collectors |-> [i \in 1..Len(CollectorKeys) |->
                          [name |-> CollectorKeys[i],
                           status |-> getStatus(CollectorKeys[i])]]]
  /\ lastTrigger' = "none"
  /\ UNCHANGED <<isUpdating, dataStore, lastUpdate, updateHistory, status, pc,
                 call, successCount, errorCount, response, clock, clockSteps,
                 cycles, file, loadPc, savePc, dataToSave, saves>>
  /\ UNCHANGED <<envVars, consVars, queryVars, collectVars, schedVars,
                 adapterCalls, pricesReport>>

\* GET /api/prices: the current price of every symbol of dataStore, the
\* latest of the update times (Math.max of no value is -Infinity, which
\* JSON writes as null) and the number of symbols.
PricesQuery ==
  /\ pricesReport' =
       [answered |-> TRUE,
        prices |-> [s \in DOMAIN dataStore |-> dataStore[s].currentPrice],
        lastUpdate |->
          IF DOMAIN lastUpdate = {} THEN None
          ELSE LET times == {lastUpdate[k] : k \in DOMAIN lastUpdate}
               IN Some(CHOOSE t \in times : \A u \in times : TimeGE(t, u)),
        totalItems |-> Cardinality(DOMAIN dataStore)]
  /\ UNCHANGED <<agentVars, envVars, consVars, queryVars, collectVars,
                 schedVars, adapterCalls, statusReport>>

\* A run with one cycle, started by a manual trigger, and status queries
\* at any time.
StatusSpec ==
  /\ InitRun({Run(NoFile, FaultyEnv, MaxCycles - 1, 0)})
  /\ [][ManualUpdate \/ Settle \/ StatusQuery]_vars

\* ------------------------------------------------------- the two timers
\* The minute of the hour.
Minute(t) == t.ms \div (60 * 1000)

\* The process has started at the beginning of a clock hour, after the
\* callbacks of that minute, and has loaded no file.
SchedInit ==
  /\ isUpdating = FALSE
  /\ dataStore = EmptyMap
  /\ lastUpdate = EmptyMap
  /\ updateHistory = EmptyMap
  /\ status = [c \in Collectors |-> "initialized"]
  /\ pc = [t \in Triggers |-> "idle"]
  /\ call = [t \in Triggers |-> [c \in Collectors |-> NoCall]]
  /\ successCount = [t \in Triggers |-> 0]
  /\ errorCount = [t \in Triggers |-> 0]
  /\ response = 0
  /\ clock \in {Time(24 * 400 + hour, 0) : hour \in 0..23}
  /\ clockSteps = 0
  /\ cycles = MaxSchedMinutes
  /\ saves = 0
  /\ file = NoFile
  /\ loadPc = "done"
  /\ savePc = "idle"
  /\ dataToSave = EmptyMap
  /\ lastTrigger = "none"
  /\ env = QuietEnv
  /\ outcomes = [c \in Collectors |-> Outcome(QuietEnv, c)]
  /\ InitCons /\ InitQuery /\ InitCollect /\ InitRest

\* The next minute begins, and its callbacks are due: that of
\* '*/5 * * * *', that of '0 * * * *'.  In this
\* specification the callbacks of a minute have run, and the cycle that one
\* of them started is over, before the next minute begins.
MinuteTick ==
  /\ clockSteps < MaxSchedMinutes
  /\ due = {}
  /\ \A t \in Triggers : pc[t] = "idle"
  /\ clock' = PlusMs(clock, 60 * 1000)
  /\ clockSteps' = clockSteps + 1
  /\ due' = {t \in {"cron5"} : Minute(clock') % 5 = 0}
              \cup {t \in {"cronHourly"} : Minute(clock') = 0}
  /\ triggered' = {}
  /\ lastTrigger' = "none"
  /\ UNCHANGED <<isUpdating, dataStore, lastUpdate, updateHistory, status, pc,
                 call, successCount, errorCount, response, cycles, file,
                 loadPc, savePc, dataToSave, saves>>
  /\ UNCHANGED <<envVars, consVars, queryVars, collectVars, adapterCalls,
                 statusReport, pricesReport>>

\* The callback of a timer runs: it reads the hour and, when the hour is
\* one of its own, calls updateAllPrices.
CronCallback(t, hours) ==
  /\ t \in due
  /\ due' = due \ {t}
  /\ IF hours
       THEN /\ updateAllPrices(t)
            /\ triggered' = triggered \cup {t}
            /\ lastTrigger' = t
       ELSE /\ UNCHANGED <<isUpdating, pc, call, status, successCount,
                           errorCount, cycles, dataStore, lastUpdate,
                           updateHistory>>
            /\ triggered' = triggered
            /\ lastTrigger' = "none"
  /\ UNCHANGED <<response, clock, clockSteps, file, loadPc, savePc, dataToSave, saves>>
  /\ UNCHANGED <<envVars, consVars, queryVars, collectVars, adapterCalls,
                 statusReport, pricesReport>>

\* hour >= 6 && hour <= 22
DueCron5 ==
  CronCallback("cron5",
               getHours(clock) >= MarketOpenHour /\ getHours(clock) <= MarketCloseHour)

DueCronHourly == CronCallback("cronHourly", CronHourlyHours(getHours(clock)))

SchedSpec ==
  SchedInit /\ [][MinuteTick \/ DueCron5 \/ DueCronHourly \/ Settle]_vars

\* ------------------------------------------------- loadStoredData applied
\* The histories of at most MaxLoadPoints points that a file can hold: the
\* k-th point is of the k-th millisecond of the hour before the start, and
\* a point can lack a source.
LoadHistories ==
  UNION {{h \in [1..n -> [price : {[num |-> 1, den |-> 1], [num |-> 2, den |-> 1]},
                           timestamp : {Time(StartClock.h - 1, k) : k \in 1..n},
                           source : {Null, "Binance"},
                           verified : BOOLEAN]] :
            \A k \in 1..n : /\ h[k].price.num = 1 + (k % 2)
                            /\ h[k].timestamp = Time(StartClock.h - 1, k)} :
         n \in 0..MaxLoadPoints}

\* The values of a member of the file: an array of points, or null.
LoadValues ==
  {[kind |-> "null", items |-> << >>]}
    \cup {[kind |-> "array",
           items |-> [k \in 1..Len(h) |-> StringifyPoint(h[k])]] :
            h \in LoadHistories}

\* The process has started and no timer fires before the load is over.
\* There is no file, a file with a member for BTC, or one with members for
\* BTC and ETH in either order.
LoadInit ==
  /\ InitAgent /\ InitCons /\ InitQuery /\ InitCollect /\ InitRest
  /\ file \in
       {NoFile}
         \cup {[exists |-> TRUE, data |-> <<JsonMember("BTC", v)>>] :
                 v \in LoadValues}
         \cup {[exists |-> TRUE,
                data |-> <<JsonMember(ks[1], v), JsonMember(ks[2], w)>>] :
                 v \in LoadValues, w \in LoadValues,
                 ks \in {<<"BTC", "ETH">>, <<"ETH", "BTC">>}}
  /\ env = QuietEnv
  /\ outcomes = [c \in Collectors |-> Outcome(QuietEnv, c)]
  /\ cycles = 0
  /\ saves = 0

LoadSpec == LoadInit /\ [][LoadPathExists \/ LoadReadJson]_vars

\* The runs of FairSpec: collectors that fail beside collectors that
\* answer; a stored file and a save.  While a collectData call is pending,
\* one of the pending calls is eventually settled.
FairSpec ==
  /\ InitRun({Run(NoFile, FaultyEnv, MaxCycles - 1, 0),
              Run(StoredFile(1), SingleEnv, 0, MaxSaves)})
  /\ [][Next]_vars
  /\ WF_vars(Settle)

\* ================================================================ claims
InFlight == {t \in Triggers : pc[t] = "running"}

Settles(t, c) == call[t][c].state = "pending" /\ call'[t][c].state # "pending"

\* C1: at most one update cycle is in flight, whatever the interleaving of
\* the 5-minute trigger, the hourly trigger and manual triggers; the flag is
\* set exactly while a cycle is in flight.
C1_SingleFlight ==
  /\ Cardinality(InFlight) <= 1
  /\ isUpdating <=> InFlight # {}

\* A scheduled trigger has just been turned away by a manual cycle.
C1_Witness ==
  /\ pc["manual"] = "running"
  /\ lastTrigger = "cron5"

\* C2: a manual trigger that arrives while a cycle is in flight is answered
\* 429, and starts no collectData call.
C2_ManualConflict ==
  [][(lastTrigger' = "manual" /\ isUpdating)
       => (response' = 429 /\ call' = call /\ status' = status /\ pc' = pc)]_vars

C2_Witness ==
  /\ lastTrigger = "manual"
  /\ response = 429
  /\ isUpdating
  /\ \E t \in Triggers : pc[t] = "running"

\* C3: a trigger, scheduled or manual, that arrives while a cycle is in
\* flight changes neither the flag nor the maps nor the collectors nor the
\* running cycle.
C3_RejectedIsNoOp ==
  [][(lastTrigger' # "none" /\ isUpdating)
       => /\ isUpdating'
          /\ dataStore' = dataStore
          /\ lastUpdate' = lastUpdate
          /\ updateHistory' = updateHistory
          /\ status' = status
          /\ call' = call
          /\ pc' = pc
          /\ successCount' = successCount
          /\ errorCount' = errorCount]_vars

\* The hourly trigger has just been turned away by a 5-minute cycle of
\* which some collectors are settled and some are not.
C3_Witness ==
  /\ lastTrigger = "cronHourly"
  /\ pc["cron5"] = "running"
  /\ isUpdating
  /\ \E c \in Collectors : call["cron5"][c].state = "resolved"
  /\ \E c \in Collectors : call["cron5"][c].state = "pending"

\* C4: while a collectData call of a cycle is unresolved the flag is set.
C4_FanInBarrier ==
  \A t \in Triggers, c \in Collectors :
    call[t][c].state = "pending" => (isUpdating /\ pc[t] = "running")

\* A cycle has ended, every collector settled, some of them by throwing.
C4_Witness ==
  /\ ~isUpdating
  /\ \E t \in Triggers :
       /\ \A c \in Collectors : call[t][c].state \in {"resolved", "thrown"}
       /\ \E c \in Collectors : call[t][c].state = "thrown"
       /\ \E c \in Collectors : call[t][c].state = "resolved"

\* C5: every cycle that is in flight eventually ends with the flag cleared,
\* if every collectData call is eventually settled.
C5_CycleEnds == isUpdating ~> ~isUpdating

\* A cycle in which two collectors have rejected has ended, and the flag
\* is clear.
C5_Witness ==
  /\ ~isUpdating
  /\ \E t \in Triggers :
       /\ call[t]["metals"].state = "thrown"
       /\ call[t]["realestate"].state = "thrown"
       /\ \A c \in Collectors : call[t][c].state # "pending"

\* C6: when a collectData call returns, each of its successful results is
\* in the maps after the step, whether or not other collectors of the cycle
\* have thrown; when it throws, one error is counted and nothing else of the
\* cycle changes.
C6_PartialFailureIsolation ==
  [][\A t \in Triggers, c \in Collectors :
       Settles(t, c) =>
         IF call'[t][c].state = "thrown"
           THEN /\ errorCount'[t] = errorCount[t] + 1
                /\ successCount'[t] = successCount[t]
                /\ dataStore' = dataStore
                /\ updateHistory' = updateHistory
                /\ \A c2 \in Collectors \ {c} : call'[t][c2] = call[t][c2]
           ELSE \A i \in 1..Len(call'[t][c].results) :
                  LET r == call'[t][c].results[i] IN
                  (r.success /\ r.price # None /\ r.price[1].num > 0) =>
                    /\ r.symbol \in DOMAIN dataStore'
                    /\ dataStore'[r.symbol].currentPrice = r.price[1]
                    /\ dataStore'[r.symbol].timestamp = clock
                    /\ r.symbol \in DOMAIN updateHistory'
                    /\ Last(updateHistory'[r.symbol]).price = r.price[1]
                    /\ Last(updateHistory'[r.symbol]).timestamp = clock]_vars

\* In one cycle a collector has thrown, one error at least is counted, and
\* the price of another collector is in the maps.
C6_Witness ==
  \E t \in Triggers :
    /\ call[t]["metals"].state = "thrown"
    /\ call[t]["stocks"].state = "resolved"
    /\ errorCount[t] >= 1
    /\ "SPY" \in DOMAIN dataStore
    /\ dataStore["SPY"].currentPrice = [num |-> 100, den |-> 1]

C8_FifoEviction ==
  [][\A t \in Triggers, c \in Collectors :
       (Settles(t, c) /\ call'[t][c].state = "resolved") =>
         \A i \in 1..Len(call'[t][c].results) :
           LET r == call'[t][c].results[i]
               old == IF r.symbol \in DOMAIN updateHistory
                        THEN updateHistory[r.symbol] ELSE << >>
               new == updateHistory'[r.symbol]
           IN (r.success /\ r.price # None /\ r.price[1].num > 0) =>
                /\ Last(new).timestamp = clock
                /\ Last(new).price = r.price[1]
                /\ IF Len(old) = HistoryCap
                     THEN /\ Len(new) = HistoryCap
                          /\ \A k \in 1..(HistoryCap - 1) : new[k] = old[k + 1]
                     ELSE /\ Len(new) = Len(old) + 1
                          /\ \A k \in 1..Len(old) : new[k] = old[k]]_vars

\* The stored history of 1000 points has lost its first point to a point
\* of an update cycle.
C8_Witness ==
  /\ "BTC" \in DOMAIN updateHistory
  /\ Len(updateHistory["BTC"]) = HistoryCap
  /\ updateHistory["BTC"][1] = SeedHistory(HistoryCap)[2]
  /\ Last(updateHistory["BTC"]).timestamp = clock

\* C9: a history query returns, in stored order, exactly the points of the
\* symbol that are not older than the present minus the window; a point at
\* that instant is returned and a point one millisecond older is not.
C9_WindowedQuery ==
  (queryArgs.period \in Periods) =>
    LET h == IF queryArgs.symbol \in DOMAIN updateHistory
               THEN updateHistory[queryArgs.symbol] ELSE << >>
        start == MinusHours(clock, WindowHours(queryArgs.period))
        before == PlusMs(start, -1)
        kept == {i \in 1..Len(h) : ~TimeGT(start, h[i].timestamp)}
        nth(j) == CHOOSE i \in kept : Cardinality({k \in kept : k <= i}) = j
    IN /\ Len(queryResult) = Cardinality(kept)
       /\ \A j \in 1..Len(queryResult) :
            /\ queryResult[j].price = h[nth(j)].price
            /\ queryResult[j].timestamp = h[nth(j)].timestamp
            /\ queryResult[j].verified = h[nth(j)].verified
       /\ \A i \in 1..Len(h) :
            h[i].timestamp = start =>
              \E j \in 1..Len(queryResult) : queryResult[j].timestamp = start
       /\ \A j \in 1..Len(queryResult) : queryResult[j].timestamp # before

\* A query over one year on a history of a point one millisecond too old
\* and a point exactly one year old: the second alone is returned.
C9_Witness ==
  /\ queryArgs = [symbol |-> "BTC", period |-> "1Y"]
  /\ Len(updateHistory["BTC"]) = 2
  /\ updateHistory["BTC"][2].timestamp = MinusHours(clock, 365 * 24)
  /\ updateHistory["BTC"][1].timestamp = PlusMs(MinusHours(clock, 365 * 24), -1)
  /\ Len(queryResult) = 1
  /\ queryResult[1].timestamp = MinusHours(clock, 365 * 24)

\* C10: the consolidation of exactly one observation is unverified, has a
\* coefficient of variation of 0, the price and the source of that
\* observation, in every collector.
C10_SingleObservation ==
  (consolidated.done /\ Len(consolidated.input) = 1) =>
    /\ consolidated.result.verified = FALSE
    /\ consolidated.result.variance = [num |-> 0, den |-> 1]
    /\ consolidated.result.price = [num |-> consolidated.input[1].price, den |-> 1]
    /\ consolidated.result.primarySource = consolidated.input[1].source

\* The loosest threshold, that of the luxury collector, applied to one
\* observation.
C10_Witness ==
  /\ consolidated.done
  /\ Len(consolidated.input) = 1
  /\ collector = "luxury"
  /\ consolidated.result.price.num = 150

\* The prices and the reliabilities of the consolidated array, in input
\* order.
InputPrices == [k \in 1..Len(consolidated.input) |-> consolidated.input[k].price]

InputReliabilities ==
  [k \in 1..Len(consolidated.input) |-> consolidated.input[k].reliability]

\* C11: for two or more observations, verified is true exactly when the
\* coefficient of variation of the prices (population variance, divided by
\* N; standard deviation over mean) is strictly below the threshold of the
\* collector, whatever the reliabilities.  Prices 100 and 104 have variance
\* 4 and are verified at 2% and not at 1%; prices 49 and 51 have a
\* coefficient of exactly 2% and are not verified at 2%.
C11_VerifiedIffCvBelow ==
  (consolidated.done /\ Len(consolidated.input) >= 2) =>
    LET n == Len(consolidated.input)
        thr == Threshold(collector)
        sum == SumFrom(InputPrices, 1)
        \* n^2 * variance = sum over k of (n * price[k] - sum)^2 / n
        devs == [k \in 1..n |-> (n * InputPrices[k] - sum) * (n * InputPrices[k] - sum)]
        nnVar == SumFrom(devs, 1) \div n
        \* nnVar / sum^2 < thr^2
        cvBelow == \/ sum < 0
                   \/ /\ sum > 0
                      /\ nnVar <= (thr.num * thr.num * sum * sum - 1)
                                    \div (thr.den * thr.den)
    IN /\ SumFrom(devs, 1) % n = 0
       /\ consolidated.result.verified <=> cvBelow
       /\ InputPrices = <<100, 104>> =>
            /\ nnVar = 4 * n * n
            /\ collector = "crypto" => consolidated.result.verified
            /\ collector = "metals" => ~consolidated.result.verified
       /\ (InputPrices = <<49, 51>> /\ collector = "crypto") =>
            ~consolidated.result.verified

\* Two prices whose coefficient of variation is exactly the threshold of
\* the crypto collector, with unequal reliabilities: not verified.
C11_Witness ==
  /\ consolidated.done
  /\ collector = "crypto"
  /\ InputPrices = <<49, 51>>
  /\ InputReliabilities = <<90, 80>>
  /\ ~consolidated.result.verified

\* The first observation of the highest reliability of the consolidated
\* array.
MostReliable ==
  LET n == Len(consolidated.input)
      best == CHOOSE k \in 1..n :
                /\ \A j \in 1..n : InputReliabilities[j] <= InputReliabilities[k]
                /\ \A j \in 1..(k - 1) : InputReliabilities[j] < InputReliabilities[k]
  IN consolidated.input[best]

\* C12: for two or more observations, the price is the reliability-weighted
\* mean when the result is verified, and otherwise the price of the most
\* reliable observation.
C12_ConsolidatedPrice ==
  (consolidated.done /\ Len(consolidated.input) >= 2) =>
    LET n == Len(consolidated.input)
        weighted == SumFrom([k \in 1..n |-> InputPrices[k] * InputReliabilities[k]], 1)
        weights == SumFrom(InputReliabilities, 1)
        price == consolidated.result.price
    IN IF consolidated.result.verified
         THEN price.num * weights = weighted * price.den
         ELSE price = [num |-> MostReliable.price, den |-> 1]

\* Prices that disagree by a third: the result is unverified and carries
\* the price of the more reliable source, which no average of the two equals.
C12_Witness ==
  /\ consolidated.done
  /\ collector = "stocks"
  /\ InputPrices = <<100, 150>>
  /\ InputReliabilities = <<80, 90>>
  /\ ~consolidated.result.verified
  /\ consolidated.result.price = [num |-> 150, den |-> 1]

\* C13: for two or more observations primarySource is the source of the
\* first observation, in input order, among those of the highest
\* reliability, verified or not.
C13_PrimarySource ==
  (consolidated.done /\ Len(consolidated.input) >= 2) =>
    consolidated.result.primarySource = MostReliable.source

\* Two observations share the highest reliability and follow a less
\* reliable one: the earlier of the two is the primary source, here of a
\* verified result.
C13_Witness ==
  /\ consolidated.done
  /\ Len(consolidated.input) = 3
  /\ InputReliabilities = <<80, 90, 90>>
  /\ consolidated.result.verified
  /\ consolidated.result.primarySource = SourceNames[2]

\* The outcomes of the adapters of the collected symbol, the logger calls
\* that throw while it is collected, and the adapters of its collector.
SymbolOuts == env.outs[collected.symbol]

SymbolLogFaults == env.logger[collected.symbol]

SymbolAdapters == AdaptersOf(collector)

\* The adapters of the collected symbol whose output is a valid observation
\* for its collector, and those that are configured.
ValidOutputs ==
  {i \in 1..Len(SymbolAdapters) :
     /\ SymbolOuts[i].kind = "return"
     /\ SymbolOuts[i].value # None
     /\ SymbolOuts[i].value[1] # 0
     /\ Filters(collector) => SymbolOuts[i].value[1] > 0}

Configured == {i \in 1..Len(SymbolAdapters) : SymbolOuts[i].kind # "skip"}

C15_PositiveObservations ==
  (collected.done /\ collected.consolidated # << >>) =>
    \A k \in 1..Len(collected.consolidated[1]) :
      collected.consolidated[1][k].price > 0

\* The source names of the adapters in a set, in calling order.
RECURSIVE NamesFrom(_, _)
NamesFrom(i, keep) ==
  IF i > Len(SymbolAdapters) THEN << >>
  ELSE (IF i \in keep THEN <<SymbolAdapters[i].source>> ELSE << >>)
         \o NamesFrom(i + 1, keep)

\* The outcomes of the collected symbol with every throw replaced by a
\* return of nothing.
WithoutThrows ==
  [i \in 1..Len(SymbolAdapters) |->
     IF SymbolOuts[i].kind = "throw" THEN Returns(None) ELSE SymbolOuts[i]]

\* C16: when adapters of a symbol throw, and the logger works, every
\* configured adapter of the symbol is still called, in order; the
\* observations gathered are those of the adapters that returned a usable
\* price; the result is the one obtained had the throwing adapters returned
\* nothing; and the collector goes on to its other symbols.
C16_AdapterIsolation ==
  (collected.done /\ SymbolLogFaults = {}) =>
    /\ collected.invoked = NamesFrom(1, Configured)
    /\ Len(collected.gathered)
         = Cardinality({i \in 1..Len(SymbolAdapters) :
                          /\ SymbolOuts[i].kind = "return"
                          /\ SymbolOuts[i].value # None
                          /\ SymbolOuts[i].value[1] # 0})
    /\ \A k \in 1..Len(collected.gathered) :
         \E i \in 1..Len(SymbolAdapters) :
           /\ SymbolOuts[i] = Returns(Some(collected.gathered[k].price))
           /\ SymbolAdapters[i].source = collected.gathered[k].source
           /\ SymbolAdapters[i].reliability = collected.gathered[k].reliability
    /\ collected.kind = "return"
    /\ collected.result
         = collectPrice(collector, collected.symbol, WithoutThrows, {}).result
    /\ collected.call.kind = "return"
    /\ collected.call.status = "completed"
    /\ Len(collected.call.results) = Len(SymbolsOf(collector))

\* The first adapter of BTC throws, the second answers: the second is
\* called, its price is the result, and the collector has a result for
\* each of its two symbols.
C16_Witness ==
  /\ collected.done
  /\ collected.symbol = "BTC"
  /\ SymbolLogFaults = {}
  /\ SymbolOuts[1] = Throws
  /\ SymbolOuts[2] = Returns(Some(104))
  /\ collected.invoked = <<"CoinGecko", "Binance">>
  /\ collected.result.success
  /\ collected.result.price = Some([num |-> 104, den |-> 1])
  /\ Len(collected.call.results) = 2

Begins(t, c) == call[t][c].state # "pending" /\ call'[t][c].state = "pending"

C19_IncrementalApplication ==
  [][\A t \in Triggers, c \in Collectors :
       (/\ Settles(t, c)
        /\ call'[t][c].state = "resolved"
        /\ \E c2 \in Collectors : call'[t][c2].state = "pending") =>
         /\ isUpdating'
         /\ \A i \in 1..Len(call'[t][c].results) :
              LET r == call'[t][c].results[i] IN
              (r.success /\ r.price # None /\ r.price[1].num > 0) =>
                /\ r.symbol \in DOMAIN dataStore'
                /\ dataStore'[r.symbol]
                     = [currentPrice |-> r.price[1], timestamp |-> clock,
                        source |-> r.source, verified |-> r.verified[1]]
                /\ Last(updateHistory'[r.symbol])
                     = [price |-> r.price[1], timestamp |-> clock,
                        source |-> r.source, verified |-> r.verified[1]]]_vars

\* The cycle is in flight, the verified price of BTC is in the maps, and
\* the stock collector is still collecting.
C19_Witness ==
  /\ isUpdating
  /\ \E t \in Triggers :
       /\ call[t]["crypto"].state = "resolved"
       /\ call[t]["stocks"].state = "pending"
  /\ status["stocks"] = "collecting"
  /\ "BTC" \in DOMAIN dataStore
  /\ dataStore["BTC"].verified
  /\ dataStore["BTC"].source = "Binance"
  /\ Last(updateHistory["BTC"]).price = dataStore["BTC"].currentPrice

\* The points and entries an update cycle of this run has written: their
\* timestamp is not before the start of the process.
WrittenByCycle(timestamp) == TimeGE(timestamp, StartClock)

\* C20: loadStoredData is complete before an update cycle writes to the
\* maps, so that the step in which it puts the stored histories in the maps
\* removes no history point and replaces no current price that a cycle has
\* written.
C20_HydrationPrecedesWrites ==
  [][(loadPc = "readJson" /\ loadPc' = "done") =>
       \A s \in DOMAIN updateHistory :
         /\ \A k \in 1..Len(updateHistory[s]) :
              WrittenByCycle(updateHistory[s][k].timestamp) =>
                \E j \in 1..Len(updateHistory'[s]) :
                  updateHistory'[s][j] = updateHistory[s][k]
         /\ (s \in DOMAIN dataStore /\ WrittenByCycle(dataStore[s].timestamp)) =>
              dataStore'[s] = dataStore[s]]_vars

\* C21: after a load that succeeded, every symbol of the file is in
\* updateHistory; a symbol whose array in the file is not empty has a
\* dataStore entry with the price and the timestamp of the last point of
\* the array and with its source, or 'stored' when the point has none; a
\* symbol whose array is empty has no dataStore entry.
C21_CurrentFromLastPoint ==
  (loadPc = "done" /\ file.exists) =>
    \A i \in 1..Len(file.data) :
      LET symbol == file.data[i].key
          items == file.data[i].value.items
      IN /\ symbol \in DOMAIN updateHistory
         /\ Len(updateHistory[symbol]) = Len(items)
         /\ IF Len(items) > 0
              THEN /\ symbol \in DOMAIN dataStore
                   /\ dataStore[symbol].currentPrice = Last(items)[1]
                   /\ dataStore[symbol].timestamp = Last(items)[2]
                   /\ dataStore[symbol].source
                        = IF Last(items)[3] = None THEN "stored"
                          ELSE Last(items)[3][1]
              ELSE symbol \notin DOMAIN dataStore

\* The file holds two points for BTC, the last without a source, and an
\* empty array for ETH: BTC is 'stored', ETH has a history and no entry.
C21_Witness ==
  /\ loadPc = "done"
  /\ Len(file.data) = 2
  /\ file.data[1].key = "BTC"
  /\ Len(file.data[1].value.items) = 2
  /\ Last(file.data[1].value.items)[3] = None
  /\ Len(file.data[2].value.items) = 0
  /\ dataStore["BTC"].source = "stored"
  /\ dataStore["BTC"].timestamp = Time(StartClock.h - 1, 2)
  /\ "ETH" \in DOMAIN updateHistory
  /\ "ETH" \notin DOMAIN dataStore

\* C22: saveData takes every history of updateHistory, whole; the file it
\* writes holds exactly the symbols taken, no array of more than 1000
\* points, and, loaded into an agent whose maps are empty, gives the
\* histories taken: the same symbols and the same points in the same order.
C22_RoundTrip ==
  [][/\ (savePc = "ensureDir" /\ savePc' = "writeJson") =>
          dataToSave' = updateHistory
     /\ (savePc = "writeJson" /\ savePc' = "idle" /\ file' # file) =>
          /\ {file'.data[i].key : i \in 1..Len(file'.data)} = DOMAIN dataToSave
          /\ Len(file'.data) = Cardinality(DOMAIN dataToSave)
          /\ \A i \in 1..Len(file'.data) :
               Len(file'.data[i].value.items) <= HistoryCap
          /\ Hydrate(Store(EmptyMap, EmptyMap, EmptyMap),
                     ReadJson(file'.data)).updateHistory = dataToSave]_vars

\* A file has been written after a cycle and a load: its array for BTC
\* holds the two stored points and the verified point of the cycle, and it
\* gives back the histories in memory.
C22_Witness ==
  /\ file.exists
  /\ saves = 0
  /\ savePc = "idle"
  /\ Len(file.data) = 2
  /\ file.data[1].key = "BTC"
  /\ file.data[2].key = "ETH"
  /\ Len(file.data[1].value.items) = 3
  /\ Last(file.data[1].value.items)[3] = Some("Binance")
  /\ Last(file.data[1].value.items)[4] = Some(TRUE)
  /\ Hydrate(Store(EmptyMap, EmptyMap, EmptyMap),
             ReadJson(file.data)).updateHistory = updateHistory

\* C23 (its part on loading): when loadStoredData fails, at any point,
\* dataStore and updateHistory are empty afterwards.
C23_FailedLoadLeavesEmpty ==
  loadPc = "failed" => (DOMAIN dataStore = {} /\ DOMAIN updateHistory = {})

\* C24: the timestamps of every history are in non-decreasing order from
\* the first point to the last, in every state: after the load of a file
\* whose arrays are in that order, after every cycle and after every
\* eviction.
C24_OrderedTimestamps ==
  \A s \in DOMAIN updateHistory :
    \A k \in 1..(Len(updateHistory[s]) - 1) :
      TimeGE(updateHistory[s][k + 1].timestamp, updateHistory[s][k].timestamp)

\* After the load of 1000 stored points and a step of the clock a cycle has
\* evicted the first point and put its own point, the latest, at the end.
C24_Witness ==
  /\ loadPc = "done"
  /\ clockSteps = 1
  /\ "BTC" \in DOMAIN updateHistory
  /\ Len(updateHistory["BTC"]) = HistoryCap
  /\ updateHistory["BTC"][1].timestamp = Time(StartClock.h - 1, 2)
  /\ Last(updateHistory["BTC"]).timestamp = PlusMs(StartClock, 1)
  /\ TimeGT(Last(updateHistory["BTC"]).timestamp,
            updateHistory["BTC"][HistoryCap - 1].timestamp)

\* C25: a query whose period is none of 1H, 1D, 1W, 1M, 3M, 1Y returns
\* what the query of the same symbol over 1W returns, the points of the
\* last 7 days; a query for a symbol without history, or with an empty
\* one, returns the empty list.
C25_DefaultWindow ==
  (queryArgs.symbol # "none") =>
    LET known == queryArgs.symbol \in DOMAIN updateHistory IN
    /\ (known /\ queryArgs.period \notin Periods) =>
         \* the points not older than one week, as a query returns them
         LET kept == SelectSeq(updateHistory[queryArgs.symbol],
                       LAMBDA point : TimeGE(point.timestamp,
                                             MinusHours(clock, 7 * 24)))
         IN queryResult = [k \in 1..Len(kept) |->
                             [price |-> kept[k].price,
                              timestamp |-> kept[k].timestamp,
                              verified |-> kept[k].verified]]
    /\ (~known \/ (known /\ Len(updateHistory[queryArgs.symbol]) = 0)) =>
         queryResult = << >>

\* A query with the period 2W on a history of a point exactly one week old
\* and a point one millisecond older: the first alone is returned.
C25_Witness ==
  /\ queryArgs = [symbol |-> "BTC", period |-> "2W"]
  /\ Len(updateHistory["BTC"]) = 2
  /\ updateHistory["BTC"][1].timestamp = PlusMs(MinusHours(clock, 7 * 24), -1)
  /\ updateHistory["BTC"][2].timestamp = MinusHours(clock, 7 * 24)
  /\ Len(queryResult) = 1
  /\ queryResult[1].timestamp = MinusHours(clock, 7 * 24)

C28_ManualAnswersAfterCycle ==
  [][/\ (lastTrigger' = "manual" /\ ~isUpdating)
          => /\ cycles' = cycles - 1
             /\ response' = 0
             /\ pc'["manual"] = "running"
             /\ \A c \in Collectors : call'["manual"][c].state = "pending"
     /\ pc["manual"] = "running"
          => /\ cycles' = cycles
             /\ response' \in {0, 429, 200}
     /\ (pc["manual"] = "running" /\ response' = 200)
          => /\ \E c \in Collectors : Settles("manual", c)
             /\ \A c \in Collectors : call'["manual"][c].state # "pending"
             /\ ~isUpdating'
             /\ pc'["manual"] = "idle"
     /\ (pc["manual"] = "running" /\ response' # 200)
          => /\ isUpdating'
             /\ \E c \in Collectors : call'["manual"][c].state = "pending"]_vars

\* The only cycle of a run was a manual one and has been answered 200,
\* one of its collectors having failed.
C28_Witness ==
  /\ response = 200
  /\ cycles = MaxCycles - 1
  /\ pc["manual"] = "idle"
  /\ ~isUpdating
  /\ \A c \in Collectors : call["manual"][c].state \in {"resolved", "thrown"}
  /\ \E c \in Collectors : call["manual"][c].state = "thrown"
  /\ \A c \in Collectors : call["cron5"][c] = NoCall /\ call["cronHourly"][c] = NoCall

\* C27: the adapter calls of a symbol run concurrently: while an adapter
\* call is in flight no adapter of the collection is still waiting to be
\* called, that is, no adapter call waits for another one to finish.
C27_AdaptersConcurrent ==
  \A i \in 1..Len(adapterCalls), j \in 1..Len(adapterCalls) :
    adapterCalls[i] = "inFlight" => adapterCalls[j] # "waiting"

\* C30: the answer of a status query holds the in-flight flag as it is when
\* the query is handled and one entry for each of the six collectors, with
\* the collector's name and, as its status, one of the strings
\* 'initialized', 'collecting', 'completed', 'error'.
C30_StatusReport ==
  [][statusReport' # statusReport
       => /\ statusReport'.isUpdating = isUpdating
          /\ isUpdating' = isUpdating
          /\ Len(statusReport'.collectors) = 6
          /\ {statusReport'.collectors[i].name : i \in 1..6} = Collectors
          /\ \A i \in 1..6 :
               LET state == statusReport'.collectors[i].status
               IN /\ state.type = "string"
                  /\ state.value \in {"initialized", "collecting",
                                      "completed", "error"}]_vars

\* C31: consolidation is pure: after the call the array it was given holds
\* the same observations in the same order, and a second call on that array
\* gives the result of the first.
C31_ConsolidationIsPure ==
  consolidated.done =>
    /\ sources = consolidated.input
    /\ verifyAndConsolidate(sources, Threshold(collector)) = consolidated.result

\* C32: a failed result of a collector (success false, or a price that is
\* absent or not above zero) leaves the current price, the time of the last
\* update and the history of its symbol as they were; it adds one to the
\* error count of the cycle; and the other results of the collector, those
\* after it included, are still stored.
C32_FailedResultLeavesEntry ==
  [][\A t \in Triggers, c \in Collectors :
       (Settles(t, c) /\ outcomes[c].kind = "return") =>
         LET results == outcomes[c].results
             stored == {k \in 1..Len(results) : Accepted(results[k])}
             failed == {k \in 1..Len(results) : ~Accepted(results[k])}
             EntryUnchanged(m, n, s) ==
               /\ (s \in DOMAIN m) = (s \in DOMAIN n)
               /\ (s \in DOMAIN m) => m[s] = n[s]
         IN
         /\ errorCount'[t] = errorCount[t] + Cardinality(failed)
         /\ successCount'[t] = successCount[t] + Cardinality(stored)
         /\ \A k \in failed :
              /\ EntryUnchanged(dataStore, dataStore', results[k].symbol)
              /\ EntryUnchanged(lastUpdate, lastUpdate', results[k].symbol)
              /\ EntryUnchanged(updateHistory, updateHistory',
                                results[k].symbol)
         /\ \A k \in stored :
              /\ results[k].symbol \in DOMAIN dataStore'
              /\ dataStore'[results[k].symbol].currentPrice
                   = results[k].price[1]
              /\ dataStore'[results[k].symbol].timestamp = clock]_vars

\* The stored price of BTC is still the current one after a cycle in which
\* the collection of BTC failed and that of ETH, the next symbol of the same
\* collector, was stored.
C32_Witness ==
  /\ loadPc = "done"
  /\ Len(outcomes["crypto"].results) = 2
  /\ \E t \in Triggers :
       /\ call[t]["crypto"].state = "resolved"
       /\ errorCount[t] >= 1
       /\ successCount[t] >= 1
  /\ ~Accepted(outcomes["crypto"].results[1])
  /\ "BTC" \in DOMAIN dataStore
  /\ dataStore["BTC"].source = "stored"
  /\ ~WrittenByCycle(dataStore["BTC"].timestamp)
  /\ "ETH" \in DOMAIN dataStore
  /\ WrittenByCycle(dataStore["ETH"].timestamp)

\* C33: in one cycle a symbol gets at most one new history point and at most
\* one write of its current price: the catalogues of the collectors share no
\* symbol, a collectData call returns at most one result for each symbol of
\* its collector and none for another symbol, and the step that applies the
\* results of a collector writes only symbols that no other collector of the
\* cycle has a result for.
C33_OneWritePerSymbol ==
  [][LET Keys(c) == {Catalogue(c)[k] : k \in 1..Len(Catalogue(c))}
         HistoryLen(uh, s) == IF s \in DOMAIN uh THEN Len(uh[s]) ELSE 0
     IN
     \A t \in Triggers, c \in Collectors :
          Settles(t, c) =>
            LET results == outcomes[c].results IN
            /\ \A d \in Collectors \ {c} : Keys(c) \cap Keys(d) = {}
            /\ SymbolSet(c) \subseteq Keys(c)
            /\ Cardinality(Keys(c)) = Len(Catalogue(c))
            /\ \A k \in 1..Len(results) :
                 /\ results[k].symbol \in SymbolSet(c)
                 /\ \A j \in 1..Len(results) :
                      results[j].symbol = results[k].symbol => j = k
            /\ \A d \in Collectors \ {c} : \A j \in 1..Len(outcomes[d].results) :
                 \A k \in 1..Len(results) :
                   outcomes[d].results[j].symbol # results[k].symbol
            /\ \A s \in DOMAIN updateHistory' :
                 /\ HistoryLen(updateHistory', s)
                      <= HistoryLen(updateHistory, s) + 1
                 /\ s \notin SymbolSet(c) =>
                      /\ s \in DOMAIN updateHistory
                      /\ updateHistory'[s] = updateHistory[s]
                      /\ (s \in DOMAIN dataStore) = (s \in DOMAIN dataStore')
                      /\ s \in DOMAIN dataStore => dataStore'[s] = dataStore[s]
    ]_vars

\* The first cycle of a run has ended in which three collectors have
\* written: BTC, SPY and ROLEX-SUB have one point each.
C33_Witness ==
  /\ \E t \in Triggers :
       /\ pc[t] = "idle"
       /\ successCount[t] >= 2
       /\ \A c \in Collectors : call[t][c].state # "pending"
  /\ ~isUpdating
  /\ cycles = MaxCycles - 1
  /\ loadPc = "done"
  /\ {"BTC", "SPY", "ROLEX-SUB"} \subseteq DOMAIN updateHistory
  /\ \A s \in {"BTC", "SPY", "ROLEX-SUB"} : Len(updateHistory[s]) = 1

\* C37: every price an update cycle writes, as a current price or as a
\* history point, is above zero, whatever the collectors return: a result
\* with success true whose price is absent, zero or negative is counted as
\* an error and nothing is stored for it.
C37_StoredPricesPositive ==
  [][\A t \in Triggers, c \in Collectors :
       (Settles(t, c) /\ outcomes[c].kind = "return") =>
         LET results == outcomes[c].results
             Positive(price) == price # None /\ price[1].num > 0
             refused == {k \in 1..Len(results) :
                           results[k].success = TRUE
                             /\ ~Positive(results[k].price)}
         IN
         /\ \A s \in DOMAIN dataStore' :
              (s \notin DOMAIN dataStore \/ dataStore'[s] # dataStore[s]) =>
                /\ dataStore'[s].currentPrice.num > 0
                /\ updateHistory'[s][Len(updateHistory'[s])].price.num > 0
         /\ \A s \in DOMAIN updateHistory' :
              (s \notin DOMAIN updateHistory
                 \/ updateHistory'[s] # updateHistory[s]) =>
                updateHistory'[s][Len(updateHistory'[s])].price.num > 0
         /\ errorCount'[t] >= errorCount[t] + Cardinality(refused)
         /\ \A k \in refused :
              /\ (results[k].symbol \in DOMAIN dataStore)
                   = (results[k].symbol \in DOMAIN dataStore')
              /\ results[k].symbol \in DOMAIN dataStore =>
                   /\ dataStore'[results[k].symbol]
                        = dataStore[results[k].symbol]
                   /\ updateHistory'[results[k].symbol]
                        = updateHistory[results[k].symbol]]_vars

\* The crypto collector has returned for BTC a result with success true and
\* the price -100; the cycle has counted it as an error and the stored
\* price of BTC is still the current one.
C37_Witness ==
  /\ Len(outcomes["crypto"].results) = 2
  /\ outcomes["crypto"].results[1].symbol = "BTC"
  /\ outcomes["crypto"].results[1].success = TRUE
  /\ outcomes["crypto"].results[1].price # None
  /\ outcomes["crypto"].results[1].price[1].num < 0
  /\ \E t \in Triggers :
       call[t]["crypto"].state = "resolved" /\ errorCount[t] >= 1
  /\ loadPc = "done"
  /\ "BTC" \in DOMAIN dataStore
  /\ dataStore["BTC"].currentPrice.num > 0
  /\ dataStore["BTC"].source = "stored"

\* The runs of ReadSpec, with manual update cycles in which one source
\* answers for BTC.  In the run over a stored history of BTC there is a
\* save, and the current prices and the last week of BTC are asked for at
\* any time; in the run that finds no file the status is asked for at any
\* time.
ReadSpec ==
  /\ InitRun({Run(StoredFile(1), SingleEnv, MaxCycles - 1, MaxSaves),
              Run(NoFile, SingleEnv, MaxCycles - 1, 0)})
  /\ [][ManualUpdate \/ Settle \/ LoadPathExists \/ LoadReadJson
          \/ SaveStart \/ SaveSnapshot \/ SaveWritten \/ SaveFailed
          \/ (file.exists /\ PricesQuery)
          \/ (file.exists /\ Query
                /\ queryArgs' = [symbol |-> "BTC", period |-> "1W"])
          \/ (~file.exists /\ StatusQuery)]_vars

\* C34: reads never write: a step of the current-prices query, of the
\* historical query, of the status query or of saveData leaves the current
\* prices, the histories, the update times and the in-flight flag as they
\* were, whether or not a cycle is in flight; and none of them waits for
\* the cycle: each can take its next step in every state.
C34_ReadsNeverWrite ==
  [][/\ (\/ pricesReport' # pricesReport
         \/ queryVars' # queryVars
         \/ statusReport' # statusReport
         \/ savePc' # savePc
         \/ dataToSave' # dataToSave) =>
          /\ dataStore' = dataStore
          /\ updateHistory' = updateHistory
          /\ lastUpdate' = lastUpdate
          /\ isUpdating' = isUpdating
     /\ ENABLED PricesQuery
     /\ ENABLED Query
     /\ ENABLED StatusQuery
     /\ (savePc = "idle" /\ saves > 0) => ENABLED SaveStart
     /\ savePc = "ensureDir" => ENABLED SaveSnapshot
     /\ savePc = "writeJson" => ENABLED SaveWritten]_vars

\* While a cycle is in flight, with the point of BTC written and other
\* collectors still pending, the current prices and the history of BTC have
\* been asked for and a save has written the file: each of them shows the
\* new point.
C34_Witness ==
  /\ isUpdating
  /\ \E t \in Triggers, c \in Collectors : call[t][c].state = "pending"
  /\ pricesReport.answered
  /\ pricesReport.lastUpdate = Some(clock)
  /\ queryArgs.symbol = "BTC"
  /\ Len(queryResult) >= 1
  /\ queryResult[Len(queryResult)].timestamp = clock
  /\ saves = 0 /\ savePc = "idle"
  /\ file.exists
  /\ "BTC" \in DOMAIN updateHistory
  /\ Len(updateHistory["BTC"]) = 2
  /\ file.data[1].key = "BTC"
  /\ Len(file.data[1].value.items) = 2

C36_CollectingOnlyInFlight ==
  (\E c \in Collectors : status[c] = "collecting") => isUpdating

C39_SaveWritesOneInstant ==
  [][/\ (savePc = "ensureDir" /\ savePc' = "writeJson") =>
          /\ DOMAIN dataToSave' = DOMAIN updateHistory
          /\ \A s \in DOMAIN updateHistory :
               dataToSave'[s] = SliceLast(updateHistory[s], HistoryCap)
          /\ updateHistory' = updateHistory
     /\ (savePc = "writeJson" /\ savePc' = "writeJson") =>
          dataToSave' = dataToSave
     /\ (savePc = "writeJson" /\ file' # file) =>
          /\ file'.data = WriteJson(dataToSave)
          /\ \A i \in 1..Len(file'.data) :
               /\ MapHas(dataToSave, file'.data[i].key)
               /\ Len(file'.data[i].value.items)
                    = Len(dataToSave[file'.data[i].key])]_vars

\* A save has built its object before the crypto collector of the cycle in
\* flight settled and has written the file after: the file holds the two
\* stored points of BTC and nothing for ETH, while the history of BTC in
\* memory has a third point and the cycle is still in flight.
C39_Witness ==
  /\ isUpdating
  /\ loadPc = "done"
  /\ saves = 0 /\ savePc = "idle"
  /\ file.exists
  /\ Len(file.data) = 1
  /\ file.data[1].key = "BTC"
  /\ Len(file.data[1].value.items) = 2
  /\ MapHas(updateHistory, "BTC") /\ Len(updateHistory["BTC"]) = 3
  /\ MapHas(updateHistory, "ETH")
  /\ WrittenByCycle(Last(updateHistory["BTC"]).timestamp)

====
